---- MODULE Spec2Model ----
(***************************************************************************)
(* GridParser: the cell-detection and arrangement engine.                  *)
(*                                                                         *)
(* The detectors are pure functions.  Each family of functions has its own *)
(* specification: Init draws the inputs from bounded sets, one action per  *)
(* entry point applies the function and stores what it returned.           *)
(*                                                                         *)
(*   SpecArr    segmentArrangement.segmentsToCells / gridSchema            *)
(*   SpecPick   gridDetect.pickNLines                                      *)
(*   SpecGap    gridDetect.enforceMinGap                                   *)
(*   SpecGrid   gridDetect.detectGridLines                                 *)
(*   SpecRects  segmentDetect.mergeRects / removeContainedRects            *)
(*   SpecShapes segmentDetect.detectIsolatedShapesOnBlackBg                *)
(*   SpecProf   gridDetect.darknessProfile / lineAwareProfile              *)
(*   SpecTwice  detectGridLines / detectIsolatedShapesOnBlackBg, repeated  *)
(*   SpecSplit  gridSplit.splitGrid4x4 / splitGridCustom                   *)
(*   SpecExport detectGridLines bounds handed to splitGridCustom           *)
(*   SpecGen    api/ai/generate-cells                                      *)
(*   SpecTracks segmentDetect.collectHorizontalTracks / VerticalTracks     *)
(*   SpecCollinear segmentDetect.mergeCollinearSegments                    *)
(*   SpecMergeLoop segmentDetect.mergeRects, one round of the loop a step  *)
(*   SpecLines  gridDetect.findRuns, then mergeCloseLines                  *)
(*   SpecAttempts  the attempt loop of the generate-cells handler          *)
(*   SpecAuth  getConfig, getClient and their callers (auth0 modules)     *)
(*   SpecDetectors detectPanelRects / detectForegroundRectsOnDarkBg /      *)
(*              detectIsolatedShapesOnBlackBg                              *)
(*                                                                         *)
(* Numbers.  JavaScript numbers are modelled exactly: the arrangement      *)
(* engine on integers counted in units of eps/2 (0.5e-3 px), gridDetect on *)
(* rationals <<numerator, denominator>>.  Floating-point rounding is not   *)
(* modelled.                                                               *)
(***************************************************************************)
EXTENDS Integers, Sequences, FiniteSets, TLC

VARIABLES
  arrW, arrH, arrSegs, arrCall, arrCells,           \* segmentsToCells(w, h, segments)
  pickLines, pickSize, pickCount, pickDone, picked, \* pickNLines(detectedLines, size, count)
  gapBounds, gapGap, gapDone, gapOut,               \* enforceMinGap(bounds, size, gap)
  gridImage, gridOpts, gridDone, gridResult,        \* detectGridLines(image, options)
  rectIn, rectGap, rectDone, rectMerged, rectOut,   \* mergeRects, removeContainedRects
  shapeImage, shapeOpts, shapeDone, shapeResult,    \* detectIsolatedShapesOnBlackBg(image, options)
  profImage, profAxis, profCall, profOut,           \* darknessProfile, lineAwareProfile
  twiceKind, twiceBuffer, twiceOpts, twiceRuns,     \* a detector called again on one buffer
  splitImage, splitArgs, splitCall, splitOut,       \* splitGrid4x4, splitGridCustom
  genBody, genReply, genDone, genResponse,          \* POST generate-cells
  trackMask, trackOpts, trackAxis, trackAt,         \* collectHorizontalTracks,
  tracks, trackRow, trackOut,                       \* collectVerticalTracks
  segIn, segArgs, segDone, segOut,                  \* mergeCollinearSegments(segments, ...)
  detImage, detOpts, detCall, detRects,             \* the three rectangle detectors
  lineProfile, lineArgs, lineCall, lineRuns, lineMerged, \* findRuns, mergeCloseLines
  attReq, attPc, attAttempt, attTried, attLastErr, attSent, \* generate-cells attempt loop
  authEnv, authState, authCalls                     \* auth0 client modules

arrVars == <<arrW, arrH, arrSegs, arrCall, arrCells>>
pickVars == <<pickLines, pickSize, pickCount, pickDone, picked>>
gapVars == <<gapBounds, gapGap, gapDone, gapOut>>
gridVars == <<gridImage, gridOpts, gridDone, gridResult>>
rectVars == <<rectIn, rectGap, rectDone, rectMerged, rectOut>>
shapeVars == <<shapeImage, shapeOpts, shapeDone, shapeResult>>
profVars == <<profImage, profAxis, profCall, profOut>>
twiceVars == <<twiceKind, twiceBuffer, twiceOpts, twiceRuns>>
splitVars == <<splitImage, splitArgs, splitCall, splitOut>>
genVars == <<genBody, genReply, genDone, genResponse>>
trackVars == <<trackMask, trackOpts, trackAxis, trackAt, tracks, trackRow, trackOut>>
segVars == <<segIn, segArgs, segDone, segOut>>
detVars == <<detImage, detOpts, detCall, detRects>>
lineVars == <<lineProfile, lineArgs, lineCall, lineRuns, lineMerged>>
attVars == <<attReq, attPc, attAttempt, attTried, attLastErr, attSent>>
authVars == <<authEnv, authState, authCalls>>

vars ==
  <<arrVars, pickVars, gapVars, gridVars, rectVars, shapeVars, profVars,
    twiceVars, splitVars, genVars, trackVars, segVars, detVars, lineVars,
    attVars, authVars>>

\* A family that a specification does not exercise stays in its idle state.
ArrIdle == arrW = 0 /\ arrH = 0 /\ arrSegs = <<>> /\ arrCall = <<>> /\ arrCells = <<>>
PickIdle ==
  pickLines = <<>> /\ pickSize = <<>> /\ pickCount = 0 /\ pickDone = FALSE /\ picked = <<>>
GapIdle == gapBounds = <<>> /\ gapGap = <<>> /\ gapDone = FALSE /\ gapOut = <<>>
GridIdle == gridImage = <<>> /\ gridOpts = <<>> /\ gridDone = FALSE /\ gridResult = <<>>
RectIdle ==
  rectIn = <<>> /\ rectGap = 0 /\ rectDone = FALSE /\ rectMerged = <<>> /\ rectOut = <<>>
ShapeIdle ==
  shapeImage = <<>> /\ shapeOpts = <<>> /\ shapeDone = FALSE /\ shapeResult = <<>>
ProfIdle == profImage = <<>> /\ profAxis = "" /\ profCall = "" /\ profOut = <<>>
TwiceIdle ==
  twiceKind = "" /\ twiceBuffer = <<>> /\ twiceOpts = <<>> /\ twiceRuns = <<>>
SplitIdle ==
  splitImage = <<>> /\ splitArgs = <<>> /\ splitCall = "" /\ splitOut = <<>>
GenIdle == genBody = <<>> /\ genReply = <<>> /\ genDone = FALSE /\ genResponse = <<>>
TrackIdle ==
  /\ trackMask = <<>> /\ trackOpts = <<>> /\ trackAxis = "" /\ trackAt = 0
  /\ tracks = <<>> /\ trackRow = <<>> /\ trackOut = <<>>
SegIdle ==
  segIn = <<>> /\ segArgs = <<>> /\ segDone = FALSE /\ segOut = <<>>
DetIdle ==
  detImage = <<>> /\ detOpts = <<>> /\ detCall = "" /\ detRects = <<>>
LineIdle ==
  /\ lineProfile = <<>> /\ lineArgs = <<>> /\ lineCall = ""
  /\ lineRuns = <<>> /\ lineMerged = <<>>
AttIdle ==
  /\ attReq = <<>> /\ attPc = "" /\ attAttempt = 0
  /\ attTried = <<>> /\ attLastErr = <<>> /\ attSent = <<>>
AuthIdle ==
  authEnv = <<>> /\ authState = <<>> /\ authCalls = <<>>

OthersIdle(family) ==
  /\ IF family = "arr" THEN TRUE ELSE ArrIdle
  /\ IF family = "pick" THEN TRUE ELSE PickIdle
  /\ IF family = "gap" THEN TRUE ELSE GapIdle
  /\ IF family = "grid" THEN TRUE ELSE GridIdle
  /\ IF family = "rect" THEN TRUE ELSE RectIdle
  /\ IF family = "shape" THEN TRUE ELSE ShapeIdle
  /\ IF family = "prof" THEN TRUE ELSE ProfIdle
  /\ IF family = "twice" THEN TRUE ELSE TwiceIdle
  /\ IF family = "split" THEN TRUE ELSE SplitIdle
  /\ IF family = "gen" THEN TRUE ELSE GenIdle
  /\ IF family = "track" THEN TRUE ELSE TrackIdle
  /\ IF family = "seg" THEN TRUE ELSE SegIdle
  /\ IF family = "det" THEN TRUE ELSE DetIdle
  /\ IF family = "line" THEN TRUE ELSE LineIdle
  /\ IF family = "att" THEN TRUE ELSE AttIdle
  /\ IF family = "auth" THEN TRUE ELSE AuthIdle

OthersUnchanged(family) ==
  /\ IF family = "arr" THEN TRUE ELSE UNCHANGED arrVars
  /\ IF family = "pick" THEN TRUE ELSE UNCHANGED pickVars
  /\ IF family = "gap" THEN TRUE ELSE UNCHANGED gapVars
  /\ IF family = "grid" THEN TRUE ELSE UNCHANGED gridVars
  /\ IF family = "rect" THEN TRUE ELSE UNCHANGED rectVars
  /\ IF family = "shape" THEN TRUE ELSE UNCHANGED shapeVars
  /\ IF family = "prof" THEN TRUE ELSE UNCHANGED profVars
  /\ IF family = "twice" THEN TRUE ELSE UNCHANGED twiceVars
  /\ IF family = "split" THEN TRUE ELSE UNCHANGED splitVars
  /\ IF family = "gen" THEN TRUE ELSE UNCHANGED genVars
  /\ IF family = "track" THEN TRUE ELSE UNCHANGED trackVars
  /\ IF family = "seg" THEN TRUE ELSE UNCHANGED segVars
  /\ IF family = "det" THEN TRUE ELSE UNCHANGED detVars
  /\ IF family = "line" THEN TRUE ELSE UNCHANGED lineVars
  /\ IF family = "att" THEN TRUE ELSE UNCHANGED attVars
  /\ IF family = "auth" THEN TRUE ELSE UNCHANGED authVars

(***************************************************************************)
(* Shared arithmetic                                                       *)
(***************************************************************************)
Abs(a) == IF a < 0 THEN -a ELSE a
Min2(a, b) == IF a < b THEN a ELSE b
Max2(a, b) == IF a > b THEN a ELSE b

RECURSIVE SumSeq(_)
SumSeq(s) == IF s = <<>> THEN 0 ELSE Head(s) + SumSeq(Tail(s))

\* Array.prototype.sort(function (a, b) { return a - b; }) on numbers.
RECURSIVE InsertAsc(_, _)
InsertAsc(sorted, v) ==
  IF sorted = <<>> THEN <<v>>
  ELSE IF Head(sorted) <= v THEN <<Head(sorted)>> \o InsertAsc(Tail(sorted), v)
  ELSE <<v>> \o sorted

RECURSIVE SortAsc(_)
SortAsc(s) ==
  IF s = <<>> THEN <<>>
  ELSE InsertAsc(SortAsc(SubSeq(s, 1, Len(s) - 1)), s[Len(s)])

(***************************************************************************)
(* segmentArrangement: segments + image bounds -> cells                    *)
(*                                                                         *)
(* Lengths are integers counted in units of eps/2 = 0.5e-3 px, so that the *)
(* eps comparisons of the code are exact and a distance below eps can be   *)
(* drawn: eps is Eps units, one pixel is PX units.                         *)
(* A segment is [x1, y1, x2, y2]; a cell is [x, y, w, h].                  *)
(***************************************************************************)
Eps == 2
PX == 2000

almostEqual(a, b, eps) == Abs(a - b) <= eps

\* Sort ascending, then keep a value only if it is not almostEqual to the
\* last value kept.
RECURSIVE uniqKeep(_, _, _)
uniqKeep(values, out, eps) ==
  IF values = <<>> THEN out
  ELSE LET v == Head(values) IN
       IF out = <<>> \/ ~almostEqual(v, out[Len(out)], eps)
       THEN uniqKeep(Tail(values), Append(out, v), eps)
       ELSE uniqKeep(Tail(values), out, eps)

uniqSorted(values, eps) == uniqKeep(SortAsc(values), <<>>, eps)

overlapLen(a1, a2, b1, b2) == Max2(0, Min2(a2, b2) - Max2(a1, b1))

\* hs: [y, x1, x2], vs: [x, y1, y2]; a segment that is neither horizontal nor
\* vertical within eps is dropped.  The midpoint (s.y1 + s.y2) / 2 is exact
\* here whenever y1 + y2 is even (always for an exactly axis-aligned segment).
RECURSIVE toSegmentsHs(_, _)
toSegmentsHs(segments, eps) ==
  IF segments = <<>> THEN <<>>
  ELSE LET s == Head(segments)
           x1 == Min2(s.x1, s.x2)
           x2 == Max2(s.x1, s.x2)
           y1 == Min2(s.y1, s.y2)
           y2 == Max2(s.y1, s.y2)
       IN (IF almostEqual(y1, y2, eps)
           THEN <<[y |-> (s.y1 + s.y2) \div 2, x1 |-> x1, x2 |-> x2]>>
           ELSE <<>>) \o toSegmentsHs(Tail(segments), eps)

RECURSIVE toSegmentsVs(_, _)
toSegmentsVs(segments, eps) ==
  IF segments = <<>> THEN <<>>
  ELSE LET s == Head(segments)
           x1 == Min2(s.x1, s.x2)
           x2 == Max2(s.x1, s.x2)
           y1 == Min2(s.y1, s.y2)
           y2 == Max2(s.y1, s.y2)
       IN (IF ~almostEqual(y1, y2, eps) /\ almostEqual(x1, x2, eps)
           THEN <<[x |-> (s.x1 + s.x2) \div 2, y1 |-> y1, y2 |-> y2]>>
           ELSE <<>>) \o toSegmentsVs(Tail(segments), eps)

toSegments(segments, eps) ==
  [hs |-> toSegmentsHs(segments, eps), vs |-> toSegmentsVs(segments, eps)]

RECURSIVE gridXsRaw(_, _)
gridXsRaw(hs, vs) ==
  IF hs # <<>> THEN <<Head(hs).x1, Head(hs).x2>> \o gridXsRaw(Tail(hs), vs)
  ELSE IF vs # <<>> THEN <<Head(vs).x>> \o gridXsRaw(hs, Tail(vs))
  ELSE <<>>

RECURSIVE gridYsRaw(_, _)
gridYsRaw(hs, vs) ==
  IF hs # <<>> THEN <<Head(hs).y>> \o gridYsRaw(Tail(hs), vs)
  ELSE IF vs # <<>> THEN <<Head(vs).y1, Head(vs).y2>> \o gridYsRaw(hs, Tail(vs))
  ELSE <<>>

buildAtomicGrid(w, h, hs, vs, eps) ==
  [xs |-> uniqSorted(<<0, w>> \o gridXsRaw(hs, vs), eps),
   ys |-> uniqSorted(<<0, h>> \o gridYsRaw(hs, vs), eps)]

isBlockedByVertical(vs, xBoundary, y0, y1, eps) ==
  \E k \in 1..Len(vs) :
     /\ almostEqual(vs[k].x, xBoundary, eps)
     /\ overlapLen(vs[k].y1, vs[k].y2, y0, y1) > eps

isBlockedByHorizontal(hs, yBoundary, x0, x1, eps) ==
  \E k \in 1..Len(hs) :
     /\ almostEqual(hs[k].y, yBoundary, eps)
     /\ overlapLen(hs[k].x1, hs[k].x2, x0, x1) > eps

\* 0-based indexing of a JavaScript array held as a 1-based sequence.
At(arr, i) == arr[i + 1]

\* segmentsToCells, atomic grid loop: the lattice cells wider and taller than
\* eps, row by row, with consecutive ids from 0.
RECURSIVE atomCellsFrom(_, _, _, _, _)
atomCellsFrom(xs, ys, n, acc, eps) ==
  LET cols == Len(xs) - 1
      rows == Len(ys) - 1
  IN IF n >= rows * cols THEN acc
     ELSE LET i == n % cols
              j == n \div cols
              cw == At(xs, i + 1) - At(xs, i)
              ch == At(ys, j + 1) - At(ys, j)
          IN IF cw <= eps \/ ch <= eps
             THEN atomCellsFrom(xs, ys, n + 1, acc, eps)
             ELSE atomCellsFrom(xs, ys, n + 1,
                                Append(acc, [id |-> Len(acc), i |-> i, j |-> j]), eps)

NoId == -1

\* idxByPos[i + ',' + j], NoId when undefined.
idxByPos(atomCells, i, j) ==
  IF \E k \in 1..Len(atomCells) : atomCells[k].i = i /\ atomCells[k].j = j
  THEN (CHOOSE k \in 1..Len(atomCells) : atomCells[k].i = i /\ atomCells[k].j = j) - 1
  ELSE NoId

\* One neighbour test of the flood fill: enqueue the neighbour if it exists,
\* is not visited and the shared boundary is not blocked.
visitNeighbour(g, st, nid, blocked) ==
  IF nid # NoId /\ nid \notin st.visited /\ ~blocked
  THEN [st EXCEPT !.visited = @ \cup {nid}, !.queue = Append(@, At(g.atomCells, nid))]
  ELSE st

\* segmentsToCells, while (queue.length): breadth-first flood fill from the queue;
\* neighbours are tried right, left, down, up.
RECURSIVE floodFill(_, _)
floodFill(g, st) ==
  IF st.queue = <<>> THEN st
  ELSE LET cur == Head(st.queue)
           i0 == cur.i
           j0 == cur.j
           s0 == [st EXCEPT !.queue = Tail(@), !.comp = Append(@, cur.id)]
           s1 == visitNeighbour(g, s0, idxByPos(g.atomCells, i0 + 1, j0),
                   isBlockedByVertical(g.vs, At(g.xs, i0 + 1), At(g.ys, j0), At(g.ys, j0 + 1), g.eps))
           s2 == visitNeighbour(g, s1, idxByPos(g.atomCells, i0 - 1, j0),
                   isBlockedByVertical(g.vs, At(g.xs, i0), At(g.ys, j0), At(g.ys, j0 + 1), g.eps))
           s3 == visitNeighbour(g, s2, idxByPos(g.atomCells, i0, j0 + 1),
                   isBlockedByHorizontal(g.hs, At(g.ys, j0 + 1), At(g.xs, i0), At(g.xs, i0 + 1), g.eps))
           s4 == visitNeighbour(g, s3, idxByPos(g.atomCells, i0, j0 - 1),
                   isBlockedByHorizontal(g.hs, At(g.ys, j0), At(g.xs, i0), At(g.xs, i0 + 1), g.eps))
       IN floodFill(g, s4)

SeqMin(f, n) == CHOOSE m \in {f[k] : k \in 1..n} : \A k \in 1..n : m <= f[k]
SeqMax(f, n) == CHOOSE m \in {f[k] : k \in 1..n} : \A k \in 1..n : m >= f[k]

\* Mutant: always the bounding range of the component, also when the
\* component does not fill it.
componentToRectanglesBoundingBox(cells, comp) ==
  LET n == Len(comp)
      ci == [k \in 1..n |-> cells[comp[k] + 1].i]
      cj == [k \in 1..n |-> cells[comp[k] + 1].j]
  IN <<[minI |-> CHOOSE m \in {ci[k] : k \in 1..n} : \A k \in 1..n : m <= ci[k],
        maxI |-> CHOOSE m \in {ci[k] : k \in 1..n} : \A k \in 1..n : m >= ci[k],
        minJ |-> CHOOSE m \in {cj[k] : k \in 1..n} : \A k \in 1..n : m <= cj[k],
        maxJ |-> CHOOSE m \in {cj[k] : k \in 1..n} : \A k \in 1..n : m >= cj[k]]>>

\* One merged index range when the component fills its (i,j) bounding range,
\* otherwise one range per atomic cell, in component order.
componentToRectangles(cells, comp) ==
  LET n == Len(comp)
      ci == [k \in 1..n |-> At(cells, comp[k]).i]
      cj == [k \in 1..n |-> At(cells, comp[k]).j]
      minI == SeqMin(ci, n)
      maxI == SeqMax(ci, n)
      minJ == SeqMin(cj, n)
      maxJ == SeqMax(cj, n)
      fullCount == (maxI - minI + 1) * (maxJ - minJ + 1)
  IN IF fullCount = n
     THEN <<[minI |-> minI, maxI |-> maxI, minJ |-> minJ, maxJ |-> maxJ]>>
     ELSE [k \in 1..n |-> [minI |-> ci[k], maxI |-> ci[k], minJ |-> cj[k], maxJ |-> cj[k]]]

rangeToRect(xs, ys, rr) ==
  [x |-> At(xs, rr.minI),
   y |-> At(ys, rr.minJ),
   w |-> At(xs, rr.maxI + 1) - At(xs, rr.minI),
   h |-> At(ys, rr.maxJ + 1) - At(ys, rr.minJ)]

\* segmentsToCells, for (ci ...): the loop over the atomic cells; every
\* unvisited cell starts a component, whose rectangles are appended.
RECURSIVE componentsLoop(_, _, _, _)
componentsLoop(g, ci, visited, outRects) ==
  IF ci >= Len(g.atomCells) THEN outRects
  ELSE LET start == At(g.atomCells, ci) IN
       IF start.id \in visited THEN componentsLoop(g, ci + 1, visited, outRects)
       ELSE LET st == floodFill(g, [queue |-> <<start>>, visited |-> visited \cup {start.id},
                                    comp |-> <<>>])
                ranges == componentToRectangles(g.atomCells, st.comp)
                rects == [r \in 1..Len(ranges) |-> rangeToRect(g.xs, g.ys, ranges[r])]
            IN componentsLoop(g, ci + 1, st.visited, outRects \o rects)

\* cells.sort(function (a, b) { return a.y !== b.y ? a.y - b.y : a.x - b.x; })
cellBefore(a, b) == IF a.y # b.y THEN a.y <= b.y ELSE a.x <= b.x

RECURSIVE insertCell(_, _)
insertCell(sorted, c) ==
  IF sorted = <<>> THEN <<c>>
  ELSE IF cellBefore(Head(sorted), c) THEN <<Head(sorted)>> \o insertCell(Tail(sorted), c)
  ELSE <<c>> \o sorted

RECURSIVE sortCells(_)
sortCells(s) ==
  IF s = <<>> THEN <<>>
  ELSE insertCell(sortCells(SubSeq(s, 1, Len(s) - 1)), s[Len(s)])

\* Mutant: width and height swapped.
fullImageCellSwapped(w, h) == <<[x |-> 0, y |-> 0, w |-> h, h |-> w]>>

fullImageCell(w, h) == <<[x |-> 0, y |-> 0, w |-> w, h |-> h]>>

\* The segments argument is [absent |-> BOOLEAN, list |-> sequence]: absent
\* stands for a null or undefined argument.
noSegments(segments) == segments.absent \/ Len(segments.list) = 0

segmentsToCells(w, h, segments) ==
  IF noSegments(segments) THEN fullImageCell(w, h)
  ELSE LET eps == Eps
           normalized == toSegments(segments.list, eps)
           hs == normalized.hs
           vs == normalized.vs
       IN IF Len(hs) = 0 /\ Len(vs) = 0 THEN fullImageCell(w, h)
          ELSE LET grid == buildAtomicGrid(w, h, hs, vs, eps)
                   xs == grid.xs
                   ys == grid.ys
               IN IF Len(xs) < 2 \/ Len(ys) < 2 THEN fullImageCell(w, h)
                  ELSE LET g == [atomCells |-> atomCellsFrom(xs, ys, 0, <<>>, eps),
                                 hs |-> hs, vs |-> vs, xs |-> xs, ys |-> ys, eps |-> eps]
                           outRects == componentsLoop(g, 0, {}, <<>>)
                       IN sortCells(SelectSeq(outRects, LAMBDA c : c.w > eps /\ c.h > eps))

(***************************************************************************)
(* The placeholder segmentsToCells (first version of segmentArrangement)   *)
(***************************************************************************)
pushIfNew(arr, v) == IF \E k \in 1..Len(arr) : arr[k] = v THEN arr ELSE Append(arr, v)

\* A horizontal segment (y1 === y2) adds its x ends to xs; any other segment
\* adds its y ends to ys.
RECURSIVE placeholderXs(_, _)
placeholderXs(segments, xs) ==
  IF segments = <<>> THEN xs
  ELSE LET s == Head(segments) IN
       IF Min2(s.y1, s.y2) = Max2(s.y1, s.y2)
       THEN placeholderXs(Tail(segments),
                          pushIfNew(pushIfNew(xs, Min2(s.x1, s.x2)), Max2(s.x1, s.x2)))
       ELSE placeholderXs(Tail(segments), xs)

RECURSIVE placeholderYs(_, _)
placeholderYs(segments, ys) ==
  IF segments = <<>> THEN ys
  ELSE LET s == Head(segments) IN
       IF Min2(s.y1, s.y2) = Max2(s.y1, s.y2)
       THEN placeholderYs(Tail(segments), ys)
       ELSE placeholderYs(Tail(segments),
                          pushIfNew(pushIfNew(ys, Min2(s.y1, s.y2)), Max2(s.y1, s.y2)))

placeholderCut(segments, xa, xb, yc, yd) ==
  \E j \in 1..Len(segments) :
     LET seg == segments[j]
         segY1 == Min2(seg.y1, seg.y2)
         segY2 == Max2(seg.y1, seg.y2)
         segX1 == Min2(seg.x1, seg.x2)
         segX2 == Max2(seg.x1, seg.x2)
     IN IF segY1 = segY2
        THEN segY1 > yc /\ segY1 < yd /\ segX1 < xb /\ segX2 > xa
        ELSE segX1 > xa /\ segX1 < xb /\ segY1 < yd /\ segY2 > yc

RECURSIVE placeholderCells(_, _, _, _, _)
placeholderCells(segments, xs, ys, n, cells) ==
  LET nx == Len(xs) - 1
      ny == Len(ys) - 1
  IN IF n >= nx * ny THEN cells
     ELSE LET xa == At(xs, n % nx)
              xb == At(xs, (n % nx) + 1)
              yc == At(ys, n \div nx)
              yd == At(ys, (n \div nx) + 1)
          IN placeholderCells(segments, xs, ys, n + 1,
               IF placeholderCut(segments, xa, xb, yc, yd) THEN cells
               ELSE Append(cells, [x |-> xa, y |-> yc, w |-> xb - xa, h |-> yd - yc]))

segmentsToCellsPlaceholder(w, h, segments) ==
  IF noSegments(segments) THEN fullImageCell(w, h)
  ELSE LET xs == SortAsc(placeholderXs(segments.list, <<0, w>>))
           ys == SortAsc(placeholderYs(segments.list, <<0, h>>))
       IN sortCells(placeholderCells(segments.list, xs, ys, 0, <<>>))

(***************************************************************************)
(* gridSchema.segmentsToSpec: loaded is the segmentArrangement global that *)
(* the page holds: "full", "placeholder" or "none" (script not loaded).    *)
(***************************************************************************)
orEmpty(segments) == IF segments.absent THEN [absent |-> FALSE, list |-> <<>>] ELSE segments

segmentsToSpec(segments, w, h, loaded) ==
  [mode |-> "freeform",
   cells |-> IF loaded = "full" THEN segmentsToCells(w, h, orEmpty(segments))
             ELSE IF loaded = "placeholder" THEN segmentsToCellsPlaceholder(w, h, orEmpty(segments))
             ELSE IF noSegments(segments) THEN fullImageCell(w, h)
             ELSE <<>>]

(***************************************************************************)
(* SpecArr: one call of the arrangement engine on a drawn input            *)
(***************************************************************************)
MaxSide == 2      \* image sides are 1..MaxSide px
MaxSegs == 2      \* at most MaxSegs segments

\* Coordinates a segment may use on an axis of the given size: the borders,
\* the 1 px line and the coordinate half an eps (0.0005 px) short of the far
\* border.
ArrPts(size) == {0, PX, size - 1, size}

ArrSegments(w, h) ==
  {[x1 |-> a, y1 |-> y, x2 |-> b, y2 |-> y] :
      <<a, b, y>> \in {t \in ArrPts(w) \X ArrPts(w) \X ArrPts(h) : t[1] < t[2]}}
  \cup
  {[x1 |-> x, y1 |-> a, x2 |-> x, y2 |-> b] :
      <<a, b, x>> \in {t \in ArrPts(h) \X ArrPts(h) \X ArrPts(w) : t[1] < t[2]}}

RECURSIVE SetToSeq(_)
SetToSeq(S) ==
  IF S = {} THEN <<>>
  ELSE LET e == CHOOSE e \in S : TRUE IN <<e>> \o SetToSeq(S \ {e})

\* The subsets of S with at most n elements.
RECURSIVE SubsetsUpTo(_, _)
SubsetsUpTo(S, n) ==
  IF n = 0 THEN {{}}
  ELSE LET P == SubsetsUpTo(S, n - 1) IN P \cup {T \cup {e} : T \in P, e \in S}

ArrInputs(w, h) ==
  {[absent |-> TRUE, list |-> <<>>]} \cup
  {[absent |-> FALSE, list |-> SetToSeq(S)] : S \in SubsetsUpTo(ArrSegments(w, h), MaxSegs)}

NotCalled == [op |-> "none", loaded |-> "none"]

ArrInit ==
  /\ arrW = MaxSide * PX
  /\ arrH \in {k * PX : k \in 1..MaxSide}
  /\ arrSegs \in ArrInputs(arrW, arrH)
  /\ arrCall = NotCalled
  /\ arrCells = <<>>
  /\ OthersIdle("arr")

\* segmentArrangement.segmentsToCells(w, h, segments), full implementation.
CallSegmentsToCells ==
  /\ arrCall = NotCalled
  /\ arrCall' = [op |-> "segmentsToCells", loaded |-> "full"]
  /\ arrCells' = segmentsToCells(arrW, arrH, arrSegs)
  /\ UNCHANGED <<arrW, arrH, arrSegs>>

\* The same call with the placeholder script loaded.
CallSegmentsToCellsPlaceholder ==
  /\ arrCall = NotCalled
  /\ arrCall' = [op |-> "segmentsToCells", loaded |-> "placeholder"]
  /\ arrCells' = segmentsToCellsPlaceholder(arrW, arrH, arrSegs)
  /\ UNCHANGED <<arrW, arrH, arrSegs>>

\* gridSchema.segmentsToSpec(segments, w, h) with either script or none.
CallSegmentsToSpec ==
  /\ arrCall = NotCalled
  /\ \E loaded \in {"full", "placeholder", "none"} :
        /\ arrCall' = [op |-> "segmentsToSpec", loaded |-> loaded]
        /\ arrCells' = segmentsToSpec(arrSegs, arrW, arrH, loaded).cells
  /\ UNCHANGED <<arrW, arrH, arrSegs>>

ArrNext ==
  \/ CallSegmentsToCells /\ OthersUnchanged("arr")
  \/ CallSegmentsToCellsPlaceholder /\ OthersUnchanged("arr")
  \/ CallSegmentsToSpec /\ OthersUnchanged("arr")

SpecArr == ArrInit /\ [][ArrNext]_vars

(***************************************************************************)
(* Claims about the arrangement engine (checked under SpecArr)             *)
(***************************************************************************)
CalledFull == arrCall = [op |-> "segmentsToCells", loaded |-> "full"]

CellsOverlap(a, b) ==
  /\ a.x < b.x + b.w
  /\ b.x < a.x + a.w
  /\ a.y < b.y + b.h
  /\ b.y < a.y + a.h

NoTwoOverlap(cells) ==
  \A p, q \in 1..Len(cells) : p < q => ~CellsOverlap(cells[p], cells[q])

AreaSum(cells) == SumSeq([k \in 1..Len(cells) |-> cells[k].w * cells[k].h])

IsHorizontal(s) == s.y1 = s.y2

\* A horizontal and a vertical segment cross when they meet in the interior
\* of both.
NonCrossing(list) ==
  \A p, q \in 1..Len(list) :
     (IsHorizontal(list[p]) /\ ~IsHorizontal(list[q])) =>
        ~(/\ list[p].x1 < list[q].x1 /\ list[q].x1 < list[p].x2
          /\ list[q].y1 < list[p].y1 /\ list[p].y1 < list[q].y2)

XCoords(w, list) == {0, w} \cup {list[k].x1 : k \in 1..Len(list)} \cup {list[k].x2 : k \in 1..Len(list)}
YCoords(h, list) == {0, h} \cup {list[k].y1 : k \in 1..Len(list)} \cup {list[k].y2 : k \in 1..Len(list)}

\* No two different coordinates of one axis are within eps of each other.
EpsSeparated(coords) == \A a, b \in coords : a # b => Abs(a - b) > Eps

TilesImage(cells, w, h) == NoTwoOverlap(cells) /\ AreaSum(cells) = w * h

\* C1 as stated: for non-crossing axis-aligned segments inside the image the
\* cells of segmentsToCells never overlap and their areas sum to W*H.
C1_AsStated ==
  (CalledFull /\ NonCrossing(arrSegs.list)) => TilesImage(arrCells, arrW, arrH)

\* C1 amended: the cells never overlap, and their areas sum to W*H whenever no
\* two different lattice coordinates of an axis (0, W or H, segment
\* coordinates) lie within eps = 1e-3 of each other.
C1_TilesWhenSeparated ==
  (CalledFull /\ NonCrossing(arrSegs.list)) =>
     /\ NoTwoOverlap(arrCells)
     /\ (EpsSeparated(XCoords(arrW, arrSegs.list)) /\ EpsSeparated(YCoords(arrH, arrSegs.list)))
           => AreaSum(arrCells) = arrW * arrH

\* C1 witness: a T-junction of two segments has been arranged into 3 cells.
C1_Witness ==
  /\ CalledFull
  /\ Len(arrSegs.list) = 2
  /\ NonCrossing(arrSegs.list)
  /\ EpsSeparated(XCoords(arrW, arrSegs.list))
  /\ EpsSeparated(YCoords(arrH, arrSegs.list))
  /\ Len(arrCells) = 3

\* C2: with an empty or absent segment list every entry point (full and
\* placeholder segmentsToCells, segmentsToSpec with either script or none)
\* returns exactly the one cell {x:0, y:0, w:W, h:H}.
C2_EmptyGivesFullImage ==
  (arrCall # NotCalled /\ (arrSegs.absent \/ arrSegs.list = <<>>)) =>
     arrCells = <<[x |-> 0, y |-> 0, w |-> arrW, h |-> arrH]>>

\* C2 witness: segmentsToSpec was called without segments and without the
\* arrangement script, on an image that is not square.
C2_Witness ==
  /\ arrCall = [op |-> "segmentsToSpec", loaded |-> "none"]
  /\ arrSegs.absent
  /\ arrW # arrH
  /\ Len(arrCells) = 1

(***************************************************************************)
(* gridDetect: numbers are rationals <<n, d>> in lowest terms, d > 0       *)
(***************************************************************************)
RECURSIVE GCD(_, _)
GCD(a, b) == IF b = 0 THEN a ELSE GCD(b, a % b)

Rat(n, d) ==
  LET g == GCD(Abs(n), Abs(d))
      sgn == IF d < 0 THEN -1 ELSE 1
  IN <<(sgn * n) \div g, (sgn * d) \div g>>


\* n / d for counts n <= d: 0 / 0 is NaN.
NaN == <<0, 0>>
Fraction(n, d) == IF d = 0 THEN NaN ELSE Rat(n, d)

RInt(n) == <<n, 1>>
RAdd(a, b) == Rat(a[1] * b[2] + b[1] * a[2], a[2] * b[2])
RSub(a, b) == Rat(a[1] * b[2] - b[1] * a[2], a[2] * b[2])
RMulInt(a, k) == Rat(a[1] * k, a[2])
RDivInt(a, k) == Rat(a[1], a[2] * k)
RLt(a, b) == a[1] * b[2] < b[1] * a[2]
RLe(a, b) == a[1] * b[2] <= b[1] * a[2]
RAbs(a) == <<Abs(a[1]), a[2]>>
RMin(a, b) == IF RLt(b, a) THEN b ELSE a
RMax(a, b) == IF RLt(a, b) THEN b ELSE a

RECURSIVE RSum(_)
RSum(s) == IF s = <<>> THEN RInt(0) ELSE RAdd(Head(s), RSum(Tail(s)))

\* positions.sort(function (a, b) { return a - b; })
RECURSIVE RInsertAsc(_, _)
RInsertAsc(sorted, v) ==
  IF sorted = <<>> THEN <<v>>
  ELSE IF RLe(Head(sorted), v) THEN <<Head(sorted)>> \o RInsertAsc(Tail(sorted), v)
  ELSE <<v>> \o sorted

RECURSIVE RSortAsc(_)
RSortAsc(s) ==
  IF s = <<>> THEN <<>>
  ELSE RInsertAsc(RSortAsc(SubSeq(s, 1, Len(s) - 1)), s[Len(s)])

(***************************************************************************)
(* gridDetect.pickNLines(detectedLines, size, count)                       *)
(* A line is [position, thickness].                                        *)
(***************************************************************************)
\* Mutant: the range divided into count parts instead of count + 1.
pickTargetsByCount(size, count) ==
  [t \in 1..count |-> RDivInt(RMulInt(size, t), count)]

\* targets: (t * size) / (count + 1) for t = 1..count
pickTargets(size, count) ==
  [t \in 1..count |-> RDivInt(RMulInt(size, t), count + 1)]

\* The gaps of one round of the padding loop, i = 0..positions.length.
pickGaps(positions, size) ==
  [g \in 1..(Len(positions) + 1) |->
     LET i == g - 1
         left == IF i = 0 THEN RInt(0) ELSE At(positions, i - 1)
         right == IF i = Len(positions) THEN size ELSE At(positions, i)
     IN [i |-> i, mid |-> RDivInt(RAdd(left, right), 2), len |-> RSub(right, left)]]

\* Mutant: the gap before the first position is always the one bisected.
firstGap(gaps) == gaps[1]

\* gaps.sort(function (a, b) { return b.len - a.len; })[0]: the sort is
\* stable, so the head is the first gap that no other gap exceeds.
largestGap(gaps) ==
  gaps[CHOOSE g \in 1..Len(gaps) :
         /\ \A o \in 1..Len(gaps) : RLe(gaps[o].len, gaps[g].len)
         /\ \A o \in 1..(g - 1) : RLt(gaps[o].len, gaps[g].len)]

\* arr.slice(0, n)
sliceTo(arr, n) == SubSeq(arr, 1, Min2(n, Len(arr)))

\* positions.splice(i, 0, v)
spliceIn(arr, i, v) == SubSeq(arr, 1, i) \o <<v>> \o SubSeq(arr, i + 1, Len(arr))

\* Mutant: the padding loop stops one position short.
RECURSIVE pickPadOneShort(_, _, _)
pickPadOneShort(positions, size, count) ==
  IF Len(positions) >= count - 1 THEN positions
  ELSE LET gap == largestGap(pickGaps(positions, size))
       IN pickPadOneShort(RSortAsc(spliceIn(positions, gap.i, gap.mid)), size, count)

\* while (positions.length < count) { ... }
RECURSIVE pickPad(_, _, _)
pickPad(positions, size, count) ==
  IF Len(positions) >= count THEN positions
  ELSE LET gap == largestGap(pickGaps(positions, size))
       IN pickPad(RSortAsc(spliceIn(positions, gap.i, gap.mid)), size, count)

scoreChoice(choice, targets, count) ==
  RSum([i \in 1..count |-> RAbs(RSub(choice[i], targets[i]))])

\* Mutant: the loop bound k < from.length - need never takes the last
\* candidates.
RECURSIVE chooseOrderOffByOne(_, _, _)
chooseOrderOffByOne(n, need, start) ==
  IF need = 0 THEN <<(<<>>)>>
  ELSE IF start >= n - need THEN <<>>
  ELSE LET withK == chooseOrderOffByOne(n, need - 1, start + 1)
       IN [c \in 1..Len(withK) |-> <<start>> \o withK[c]] \o chooseOrderOffByOne(n, need, start + 1)

\* The index lists (0-based) that choose(from, need, start, chosen) visits,
\* in the order it visits them; n is from.length.
RECURSIVE chooseOrder(_, _, _)
chooseOrder(n, need, start) ==
  IF need = 0 THEN <<(<<>>)>>
  ELSE IF start > n - need THEN <<>>
  ELSE LET withK == chooseOrder(n, need - 1, start + 1)
       IN [c \in 1..Len(withK) |-> <<start>> \o withK[c]] \o chooseOrder(n, need, start + 1)

\* if (sc < bestScore) { bestScore = sc; best = chosen.slice(); } over the
\* visited choices; best = <<>> stands for bestScore = Infinity.
RECURSIVE chooseBest(_, _, _, _, _)
chooseBest(from, order, targets, count, best) ==
  IF order = <<>> THEN best
  ELSE LET chosen == [i \in 1..count |-> At(from, Head(order)[i])]
           better == \/ best = <<>>
                     \/ RLt(scoreChoice(chosen, targets, count), scoreChoice(best, targets, count))
       IN chooseBest(from, Tail(order), targets, count, IF better THEN chosen ELSE best)

pickNLines(detectedLines, size, count) ==
  IF count <= 0 THEN <<>>
  ELSE LET targets == pickTargets(size, count) IN
       IF Len(detectedLines) = 0 THEN targets
       ELSE LET positions == pickPad(RSortAsc([k \in 1..Len(detectedLines) |->
                                                  detectedLines[k].position]), size, count)
            IN IF Len(positions) <= count THEN sliceTo(positions, count)
               ELSE LET best == chooseBest(positions, chooseOrder(Len(positions), count, 0),
                                           targets, count, <<>>)
                    IN IF Len(best) # 0 THEN best ELSE targets

(***************************************************************************)
(* SpecPick: one call of pickNLines on drawn candidates                    *)
(***************************************************************************)
MaxCand == 4      \* at most MaxCand candidate lines
MaxPick == 3      \* count is at most MaxPick

PickSizes == {RInt(100), Rat(161, 2)}
PickPositions == {RInt(24), RInt(51), RInt(74), RInt(10), Rat(99, 2)}

PickLineLists ==
  UNION {[1..n -> {[position |-> p, thickness |-> 1] : p \in PickPositions}] : n \in 0..MaxCand}

PickInit ==
  /\ pickLines \in PickLineLists
  /\ pickSize \in PickSizes
  /\ pickCount \in (-1)..MaxPick
  /\ pickDone = FALSE
  /\ picked = <<>>
  /\ OthersIdle("pick")

CallPickNLines ==
  /\ ~pickDone
  /\ pickDone' = TRUE
  /\ picked' = pickNLines(pickLines, pickSize, pickCount)
  /\ UNCHANGED <<pickLines, pickSize, pickCount>>

PickNext == CallPickNLines /\ OthersUnchanged("pick")

SpecPick == PickInit /\ [][PickNext]_vars

(***************************************************************************)
(* Claims about pickNLines (checked under SpecPick)                        *)
(***************************************************************************)
PickCandidates == [k \in 1..Len(pickLines) |-> pickLines[k].position]

NonDecreasing(s) == \A k \in 1..(Len(s) - 1) : RLe(s[k], s[k + 1])

Occurrences(v, s) == Cardinality({k \in 1..Len(s) : s[k] = v})

SameValues(s, t) ==
  /\ Len(s) = Len(t)
  /\ \A k \in 1..Len(s) : Occurrences(s[k], s) = Occurrences(s[k], t)

\* size * t / (K + 1), written out
EvenTarget(size, t, K) == Rat(size[1] * t, size[2] * (K + 1))

\* C3: without candidates pickNLines returns the K evenly spaced targets
\* size*t/(K+1) ([25,50,75] for size 100, K 3); with exactly K candidates it
\* returns those K positions in ascending order, unaltered.
C3_TargetsOrCandidates ==
  (pickDone /\ pickCount >= 1) =>
     /\ Len(pickLines) = 0 =>
           /\ Len(picked) = pickCount
           /\ \A t \in 1..pickCount : picked[t] = EvenTarget(pickSize, t, pickCount)
           /\ (pickSize = RInt(100) /\ pickCount = 3) => picked = <<RInt(25), RInt(50), RInt(75)>>
     /\ Len(pickLines) = pickCount =>
           NonDecreasing(picked) /\ SameValues(picked, PickCandidates)

\* C3 witness: candidates [24,51,74] for size 100 and K = 3 came back as they
\* were.
C3_Witness ==
  /\ pickDone
  /\ pickSize = RInt(100)
  /\ pickCount = 3
  /\ PickCandidates = <<RInt(24), RInt(51), RInt(74)>>
  /\ picked = <<RInt(24), RInt(51), RInt(74)>>

\* C4: for K >= 1 pickNLines returns exactly K positions in non-decreasing
\* order, whatever the number of candidates; for K <= 0 it returns the empty
\* list.
C4_ExactlyKSorted ==
  pickDone =>
     /\ pickCount >= 1 => (Len(picked) = pickCount /\ NonDecreasing(picked))
     /\ pickCount <= 0 => picked = <<>>

\* C4 witness: one candidate was padded to three positions.
C4_Witness ==
  /\ pickDone
  /\ pickCount = 3
  /\ Len(pickLines) = 1
  /\ Len(picked) = 3
  /\ \E k \in 1..3 : picked[k] = pickLines[1].position

\* The K-element selections of the candidates: increasing index lists.
IndexChoices(n, K) ==
  {c \in [1..K -> 1..n] : \A k \in 1..(K - 1) : c[k] < c[k + 1]}

TargetDistance(choice, size, K) ==
  RSum([i \in 1..K |-> RAbs(RSub(choice[i], EvenTarget(size, i, K)))])

\* C5: with more than K candidates pickNLines returns K of the candidates, in
\* ascending order, and no K of the candidates taken in ascending order have
\* a strictly smaller total distance to the K targets.
C5_MinimalDistance ==
  (pickDone /\ pickCount >= 1 /\ Len(pickLines) > pickCount) =>
     LET sorted == RSortAsc(PickCandidates)
         choices == IndexChoices(Len(sorted), pickCount)
     IN /\ \E c \in choices : picked = [k \in 1..pickCount |-> sorted[c[k]]]
        /\ \A c \in choices :
              RLe(TargetDistance(picked, pickSize, pickCount),
                  TargetDistance([k \in 1..pickCount |-> sorted[c[k]]], pickSize, pickCount))

\* C5 witness: four distinct candidates, three picked, and the one left out
\* is not the smallest.
C5_Witness ==
  /\ pickDone
  /\ pickCount = 3
  /\ Len(pickLines) = 4
  /\ Cardinality({pickLines[k].position : k \in 1..4}) = 4
  /\ Len(picked) = 3
  /\ picked[1] = RInt(10)

(***************************************************************************)
(* gridDetect.enforceMinGap(bounds, size, gap), the closure inside         *)
(* detectGridLines; size is not read.                                      *)
(***************************************************************************)
\* One round of the loop, i 0-based: both tests read the entry as it is at
\* that moment, prev and next are read once.
enforceAt(b, i, gap) ==
  LET prev == At(b, i - 1)
      next == At(b, i + 1)
      mid == RDivInt(RAdd(prev, next), 2)
      b1 == IF RLt(RSub(At(b, i), prev), gap) THEN RMin(RAdd(prev, gap), mid) ELSE At(b, i)
      b2 == IF RLt(RSub(next, b1), gap) THEN RMax(RSub(next, gap), mid) ELSE b1
  IN [b EXCEPT ![i + 1] = b2]

RECURSIVE enforceFrom(_, _, _)
enforceFrom(b, i, gap) ==
  IF i >= Len(b) - 1 THEN b ELSE enforceFrom(enforceAt(b, i, gap), i + 1, gap)

enforceMinGap(bounds, size, gap) == enforceFrom(bounds, 1, gap)

(***************************************************************************)
(* SpecGap: one call of enforceMinGap on a drawn non-decreasing list       *)
(***************************************************************************)
MaxBounds == 5    \* the list has 2..MaxBounds entries

GapValues == {RInt(0), RInt(9), Rat(61, 4), Rat(43, 2), RInt(34), RInt(60)}
GapGaps == {RInt(2), RInt(8)}

GapInit ==
  /\ gapBounds \in {b \in UNION {[1..n -> GapValues] : n \in 2..MaxBounds} :
                      \A k \in 1..(Len(b) - 1) : RLe(b[k], b[k + 1])}
  /\ gapGap \in GapGaps
  /\ gapDone = FALSE
  /\ gapOut = <<>>
  /\ OthersIdle("gap")

CallEnforceMinGap ==
  /\ ~gapDone
  /\ gapDone' = TRUE
  /\ gapOut' = enforceMinGap(gapBounds, RInt(0), gapGap)
  /\ UNCHANGED <<gapBounds, gapGap>>

GapNext == CallEnforceMinGap /\ OthersUnchanged("gap")

SpecGap == GapInit /\ [][GapNext]_vars

\* C6 on the lists that have room for the gap (last - first >= gap * (entries
\* - 1)): enforceMinGap returns a non-decreasing list whose consecutive
\* entries are at least gap apart.
C6_AsStatedWithRoom ==
  (gapDone /\ RLe(RMulInt(gapGap, Len(gapBounds) - 1), RSub(gapBounds[Len(gapBounds)], gapBounds[1]))) =>
     /\ NonDecreasing(gapOut)
     /\ \A k \in 1..(Len(gapOut) - 1) : RLe(gapGap, RSub(gapOut[k + 1], gapOut[k]))

(***************************************************************************)
(* gridDetect: profiles, runs, lines                                       *)
(*                                                                         *)
(* An image is [w, h, darkCols, darkRows]: the pixel (x, y) is black when  *)
(* x is in darkCols or y is in darkRows, and white otherwise (full-span    *)
(* lines on a white canvas).  The pixel values are read through            *)
(* pixelRGB, the getImageData of the model.                                *)
(***************************************************************************)
pixelRGB(image, x, y) == IF x \in image.darkCols \/ y \in image.darkRows THEN 0 ELSE 255

\* 0.299 r + 0.587 g + 0.114 b with r = g = b = v: the weights sum to 1.
luminance(v) == v

isDarkPixel(image, x, y, blackThreshold) == luminance(pixelRGB(image, x, y)) <= blackThreshold

\* For each index the fraction of black pixels, a rational.
darknessProfile(image, axis, blackThreshold) ==
  IF axis = "x"
  THEN [c \in 1..image.w |->
          Fraction(Cardinality({y \in 0..(image.h - 1) : isDarkPixel(image, c - 1, y, blackThreshold)}),
                   image.h)]
  ELSE [r \in 1..image.h |->
          Fraction(Cardinality({x \in 0..(image.w - 1) : isDarkPixel(image, x, r - 1, blackThreshold)}),
                   image.w)]

\* The scan of one row (axis "y") or column: k is the running coordinate.
RECURSIVE maxContiguousScan(_, _, _, _, _, _, _)
maxContiguousScan(image, axis, index, blackThreshold, k, run, maxRun) ==
  IF k >= (IF axis = "y" THEN image.w ELSE image.h) THEN maxRun
  ELSE LET dark == IF axis = "y" THEN isDarkPixel(image, k, index, blackThreshold)
                   ELSE isDarkPixel(image, index, k, blackThreshold)
           run1 == IF dark THEN run + 1 ELSE 0
       IN maxContiguousScan(image, axis, index, blackThreshold, k + 1, run1, Max2(maxRun, run1))

maxContiguousDark(image, axis, index, blackThreshold) ==
  maxContiguousScan(image, axis, index, blackThreshold, 0, 0, 0)

\* Math.floor(size * fraction) for size >= 0 and a rational fraction >= 0
floorTimes(size, fraction) == (size * fraction[1]) \div fraction[2]

lineAwareProfile(image, axis, blackThreshold, minSpanFraction) ==
  LET raw == darknessProfile(image, axis, blackThreshold)
      size == IF axis = "x" THEN image.h ELSE image.w
  IN [i \in 1..Len(raw) |->
        IF maxContiguousDark(image, axis, i - 1, blackThreshold) >= floorTimes(size, minSpanFraction)
        THEN raw[i] ELSE RInt(0)]

\* The end (exclusive, 0-based) of the run of values >= threshold from i.
RECURSIVE runEnd(_, _, _)
runEnd(profile, threshold, i) ==
  IF i < Len(profile) /\ RLe(threshold, At(profile, i)) THEN runEnd(profile, threshold, i + 1) ELSE i

\* maxRunLength is always passed by detectGridLines.
RECURSIVE findRunsFrom(_, _, _, _, _, _)
findRunsFrom(profile, threshold, minRunLength, maxRunLength, i, runs) ==
  IF i >= Len(profile) THEN runs
  ELSE IF RLe(threshold, At(profile, i))
       THEN LET start == i
                stop == runEnd(profile, threshold, i)
                thickness == stop - start
            IN findRunsFrom(profile, threshold, minRunLength, maxRunLength, stop,
                 IF thickness >= minRunLength /\ thickness <= maxRunLength
                 THEN Append(runs, [position |-> RAdd(RInt(start), Rat(thickness, 2)),
                                    thickness |-> thickness])
                 ELSE runs)
       ELSE findRunsFrom(profile, threshold, minRunLength, maxRunLength, i + 1, runs)

\* Mutant: the runs longer than maxRunLength are cut to maxRunLength.
findRunsCutLong(profile, threshold, minRunLength, maxRunLength) ==
  LET all == findRunsFrom(profile, threshold, minRunLength, Len(profile), 0, <<>>)
  IN [k \in 1..Len(all) |->
        IF all[k].thickness <= maxRunLength THEN all[k]
        ELSE [position |-> RSub(all[k].position, Rat(all[k].thickness - maxRunLength, 2)),
              thickness |-> maxRunLength]]

findRuns(profile, threshold, minRunLength, maxRunLength) ==
  findRunsFrom(profile, threshold, minRunLength, maxRunLength, 0, <<>>)

RECURSIVE mergeCloseFrom(_, _, _, _)
mergeCloseFrom(lines, minGap, k, out) ==
  IF k >= Len(lines) THEN out
  ELSE LET prev == out[Len(out)]
           cur == At(lines, k)
       IN IF RLt(RSub(cur.position, prev.position), RInt(minGap))
          THEN LET totalThick == prev.thickness + cur.thickness
                   merged == [position |-> RDivInt(RAdd(RMulInt(prev.position, prev.thickness),
                                                        RMulInt(cur.position, cur.thickness)),
                                                   totalThick),
                              thickness |-> Max2(prev.thickness, cur.thickness)]
               IN mergeCloseFrom(lines, minGap, k + 1, [out EXCEPT ![Len(out)] = merged])
          ELSE mergeCloseFrom(lines, minGap, k + 1, Append(out, cur))

\* Mutant: no line is merged into its predecessor.
mergeCloseLinesNever(lines, minGap) == lines

mergeCloseLines(lines, minGap) ==
  IF Len(lines) <= 1 THEN lines ELSE mergeCloseFrom(lines, minGap, 1, <<lines[1]>>)

\* runs.sort(function (a, b) { return a.position - b.position; })
RECURSIVE insertLine(_, _)
insertLine(sorted, l) ==
  IF sorted = <<>> THEN <<l>>
  ELSE IF RLe(Head(sorted).position, l.position) THEN <<Head(sorted)>> \o insertLine(Tail(sorted), l)
  ELSE <<l>> \o sorted

RECURSIVE sortLines(_)
sortLines(s) ==
  IF s = <<>> THEN <<>>
  ELSE insertLine(sortLines(SubSeq(s, 1, Len(s) - 1)), s[Len(s)])

(***************************************************************************)
(* gridDetect.detectGridLines(image, options)                              *)
(*                                                                         *)
(* An option is a set: {} when the option is not given, {n} when it is the *)
(* number n.  canvasOk: document.createElement('canvas') and getContext    *)
(* both succeed.                                                           *)
(***************************************************************************)
optGiven(opt) == opt # {}
optValue(opt) == CHOOSE v \in opt : TRUE

\* parseInt(opt, 10) || dflt for an integer or absent option: NaN and 0 are
\* falsy.
parseIntOr(opt, dflt) ==
  IF ~optGiven(opt) THEN dflt ELSE IF optValue(opt) = 0 THEN dflt ELSE optValue(opt)

\* typeof opt === 'number' ? opt : dflt
numberOr(opt, dflt) == IF optGiven(opt) THEN optValue(opt) ELSE dflt

effectiveOptions(options) ==
  LET minLinePx == Max2(1, parseIntOr(options.minLinePx, 1)) IN
  [blackThreshold |-> Min2(255, Max2(0, parseIntOr(options.blackThreshold, 80))),
   darknessThreshold |-> numberOr(options.darknessThreshold, Rat(15, 100)),
   minLinePx |-> minLinePx,
   maxLinePx |-> Max2(minLinePx, numberOr(options.maxLinePx, 15)),
   minGap |-> Max2(2, parseIntOr(options.minGap, 8)),
   minSpanFraction |-> numberOr(options.minSpanFraction, Rat(35, 100)),
   gridCols |-> Max2(1, Min2(4, parseIntOr(options.gridCols, 4))),
   gridRows |-> Max2(1, Min2(4, parseIntOr(options.gridRows, 4)))]

\* lineAwareProfile -> findRuns -> mergeCloseLines -> sort, for one axis.
detectedRuns(image, axis, o) ==
  sortLines(mergeCloseLines(
    findRuns(lineAwareProfile(image, axis, o.blackThreshold, o.minSpanFraction),
             o.darknessThreshold, o.minLinePx, o.maxLinePx),
    o.minGap))

\* Mutant: the outer bound at the outer edge of the first line (position
\* minus half its thickness) instead of its centre.
outerLowAtEdge(runs) ==
  IF Len(runs) >= 1
  THEN RMax(RInt(0), RSub(runs[1].position, Rat(runs[1].thickness, 2)))
  ELSE RInt(0)

\* leftOuter / topOuter
outerLow(runs) ==
  IF Len(runs) >= 1 THEN RMax(RInt(0), runs[1].position) ELSE RInt(0)

\* rightOuter / bottomOuter
outerHigh(runs, size) ==
  IF Len(runs) >= 1 THEN RMin(RInt(size), runs[Len(runs)].position) ELSE RInt(size)

\* runs.length > 2 ? runs.slice(1, -1) : runs
innerRuns(runs) == IF Len(runs) > 2 THEN SubSeq(runs, 2, Len(runs) - 1) ELSE runs

\* xBounds (yBounds): the outer bounds, the inner lines picked relative to the
\* low outer bound, sorted, then enforceMinGap.
axisBounds(runs, size, cells, minGap) ==
  LET lo == outerLow(runs)
      hi == outerHigh(runs, size)
      content == RSub(hi, lo)
      inner == innerRuns(runs)
      rel == [k \in 1..Len(inner) |->
                [position |-> RSub(inner[k].position, lo), thickness |-> inner[k].thickness]]
      pickedRel == pickNLines(rel, content, cells - 1)
      innerAbs == RSortAsc([k \in 1..Len(pickedRel) |-> RAdd(lo, pickedRel[k])])
  IN enforceMinGap(<<lo>> \o innerAbs \o <<hi>>, RInt(size), RInt(minGap))

suggestedTrimOf(colRuns, rowRuns) ==
  LET innerThickness == [k \in 1..Len(innerRuns(colRuns)) |-> innerRuns(colRuns)[k].thickness]
                        \o [k \in 1..Len(innerRuns(rowRuns)) |-> innerRuns(rowRuns)[k].thickness]
  IN Min2(20, IF Len(innerThickness) # 0 THEN SeqMax(innerThickness, Len(innerThickness)) ELSE 0)

NullResult == [isNull |-> TRUE, xBounds |-> <<>>, yBounds |-> <<>>, suggestedTrim |-> 0]

detectGridLines(image, options, canvasOk) ==
  LET o == effectiveOptions(options) IN
  IF image.w = 0 \/ image.h = 0 THEN NullResult
  ELSE IF ~canvasOk THEN NullResult
  ELSE LET colRuns == detectedRuns(image, "x", o)
           rowRuns == detectedRuns(image, "y", o)
       IN [isNull |-> FALSE,
           xBounds |-> axisBounds(colRuns, image.w, o.gridCols, o.minGap),
           yBounds |-> axisBounds(rowRuns, image.h, o.gridRows, o.minGap),
           suggestedTrim |-> suggestedTrimOf(colRuns, rowRuns)]

(***************************************************************************)
(* SpecGrid: one call of detectGridLines on a drawn image                  *)
(***************************************************************************)
GridW == 33       \* image width in px
GridH == 9        \* image height in px

\* Columns that may hold a 1 px dark line spanning the image, and the sets of
\* rows that do: none, one, two, three dividers, a frame, a framed 4-row grid.
ColCandidates == {0, 8, 16, 24, GridW - 1}
RowPatterns == {{}, {0}, {4}, {2, 6}, {2, 4, 6}, {0, GridH - 1}, {0, 2, 4, 6, GridH - 1}}

GridImages ==
  {[w |-> GridW, h |-> GridH, darkCols |-> dc, darkRows |-> dr] :
      dc \in SUBSET ColCandidates, dr \in RowPatterns}
  \cup {[w |-> 0, h |-> 0, darkCols |-> {}, darkRows |-> {}]}

DefaultOptions ==
  [blackThreshold |-> {}, darknessThreshold |-> {}, minLinePx |-> {}, maxLinePx |-> {},
   minGap |-> {}, minSpanFraction |-> {}, gridCols |-> {}, gridRows |-> {}, canvasOk |-> TRUE]

\* The options of a call, with the state of the page (canvasOk) alongside.
GridOptions ==
  {[DefaultOptions EXCEPT !.minGap = mg, !.gridCols = gc, !.gridRows = gr] :
      mg \in {{}, {2}}, gc \in {{}, {1}, {2}}, gr \in {{}, {3}}}
  \cup {[DefaultOptions EXCEPT !.canvasOk = FALSE]}

\* Options outside their range, one at a time.
OutOfRangeOptions ==
  {[DefaultOptions EXCEPT !.gridCols = {0}], [DefaultOptions EXCEPT !.gridCols = {7}],
   [DefaultOptions EXCEPT !.gridRows = {-2}], [DefaultOptions EXCEPT !.minGap = {0}],
   [DefaultOptions EXCEPT !.minGap = {1}], [DefaultOptions EXCEPT !.blackThreshold = {300}],
   [DefaultOptions EXCEPT !.blackThreshold = {-5}], [DefaultOptions EXCEPT !.minLinePx = {0}],
   [DefaultOptions EXCEPT !.maxLinePx = {0}]}

\* The out-of-range options are drawn with the images that have no dark row.
GridInit ==
  /\ gridImage \in GridImages
  /\ gridOpts \in GridOptions \cup (IF gridImage.darkRows = {} THEN OutOfRangeOptions ELSE {})
  /\ gridDone = FALSE
  /\ gridResult = <<>>
  /\ OthersIdle("grid")

CallDetectGridLines ==
  /\ ~gridDone
  /\ gridDone' = TRUE
  /\ gridResult' = detectGridLines(gridImage, gridOpts, gridOpts.canvasOk)
  /\ UNCHANGED <<gridImage, gridOpts>>

GridNext == CallDetectGridLines /\ OthersUnchanged("grid")

SpecGrid == GridInit /\ [][GridNext]_vars

(***************************************************************************)
(* Claims about detectGridLines                                            *)
(***************************************************************************)
Detected == gridDone /\ ~gridResult.isNull

\* The k-th smallest element of a set of integers, k from 1.
KthOf(S, k) == CHOOSE d \in S : Cardinality({e \in S : e < d}) = k - 1

\* The centre of the 1 px line drawn at index d.
LineCentre(d) == Rat(2 * d + 1, 2)

\* S is three divider lines strictly inside 0..(size - 1), at least minGap
\* apart so that they are three lines and not one thick one.
ThreeDividers(S, size, minGap) ==
  /\ Cardinality(S) = 3
  /\ \A d \in S : d > 0 /\ d < size - 1
  /\ \A d, e \in S : d < e => e - d >= minGap

\* The three inner entries of bounds are within 2 px of the dividers S.
RecoversDividers(bounds, S) ==
  /\ Len(bounds) = 5
  /\ \A k \in 1..3 : RLe(RAbs(RSub(bounds[k + 1], LineCentre(KthOf(S, k)))), RInt(2))

\* C7 as stated: on a 4x4 grid with three dark dividers per axis,
\* detectGridLines with gridCols = gridRows = 4 returns xBounds and yBounds
\* whose three inner entries are within 2 px of the dividers.
C7_AsStated ==
  (/\ Detected
   /\ parseIntOr(gridOpts.gridCols, 4) = 4
   /\ parseIntOr(gridOpts.gridRows, 4) = 4
   /\ ThreeDividers(gridImage.darkCols, gridImage.w, parseIntOr(gridOpts.minGap, 8))
   /\ ThreeDividers(gridImage.darkRows, gridImage.h, parseIntOr(gridOpts.minGap, 8)))
  => /\ RecoversDividers(gridResult.xBounds, gridImage.darkCols)
     /\ RecoversDividers(gridResult.yBounds, gridImage.darkRows)

StrictlyIncreasing(bounds) == \A k \in 1..(Len(bounds) - 1) : RLt(bounds[k], bounds[k + 1])

InRange(bounds, size) == \A k \in 1..Len(bounds) : RLe(RInt(0), bounds[k]) /\ RLe(bounds[k], RInt(size))

\* C8 as stated: for every image with W, H > 0, whatever the number of
\* detected lines, xBounds and yBounds are strictly increasing and lie
\* within [0, W] and [0, H].
C8_AsStated ==
  Detected =>
     /\ StrictlyIncreasing(gridResult.xBounds) /\ InRange(gridResult.xBounds, gridImage.w)
     /\ StrictlyIncreasing(gridResult.yBounds) /\ InRange(gridResult.yBounds, gridImage.h)

\* The number of cells asked for on an axis: 4 when the option is absent or
\* 0, and no fewer than 1 and no more than 4.
CellsAsked(opt) ==
  IF opt = {} \/ opt = {0} THEN 4
  ELSE LET n == CHOOSE v \in opt : TRUE IN IF n < 1 THEN 1 ELSE IF n > 4 THEN 4 ELSE n

\* bounds has cells + 1 entries, from the centre of the first detected line
\* (or 0) to the centre of the last one (or size).
OuterFromLines(bounds, runs, size, cells) ==
  /\ Len(bounds) = cells + 1
  /\ bounds[1] = (IF runs = <<>> THEN RInt(0) ELSE runs[1].position)
  /\ bounds[Len(bounds)] = (IF runs = <<>> THEN RInt(size) ELSE runs[Len(runs)].position)

rectsClose(a, b, gapPx) ==
  LET overlapX == Min2(a.x + a.w, b.x + b.w) - Max2(a.x, b.x)
      overlapY == Min2(a.y + a.h, b.y + b.h) - Max2(a.y, b.y)
  IN overlapX >= -gapPx /\ overlapY >= -gapPx

\* Mutant: the intersection of the two rectangles instead of their bounding
\* box.
mergedRectIntersection(a, b) ==
  LET nx == Max2(a.x, b.x)
      ny == Max2(a.y, b.y)
      nx2 == Min2(a.x + a.w, b.x + b.w)
      ny2 == Min2(a.y + a.h, b.y + b.h)
  IN [x |-> nx, y |-> ny, w |-> nx2 - nx, h |-> ny2 - ny]

\* The bounding box that replaces rects[i].
mergedRect(a, b) ==
  LET nx == Min2(a.x, b.x)
      ny == Min2(a.y, b.y)
      nx2 == Max2(a.x + a.w, b.x + b.w)
      ny2 == Max2(a.y + a.h, b.y + b.h)
  IN [x |-> nx, y |-> ny, w |-> nx2 - nx, h |-> ny2 - ny]

\* The pairs i < j (1-based) the two loops would merge.
closePairs(rects, gapPx) ==
  {p \in (1..Len(rects)) \X (1..Len(rects)) :
     p[1] < p[2] /\ rectsClose(rects[p[1]], rects[p[2]], gapPx)}

\* The first of them in loop order: smallest i, then smallest j.
firstClosePair(rects, gapPx) ==
  CHOOSE p \in closePairs(rects, gapPx) :
    \A q \in closePairs(rects, gapPx) : p[1] < q[1] \/ (p[1] = q[1] /\ p[2] <= q[2])

\* Mutant: the merged rectangle is stored but rects[j] is not spliced out.
mergePairKeepBoth(rects, i, j) == [rects EXCEPT ![i] = mergedRect(rects[i], rects[j])]

\* rects[i] = merged; rects.splice(j, 1)
mergePair(rects, i, j) ==
  LET merged == [rects EXCEPT ![i] = mergedRect(rects[i], rects[j])]
  IN SubSeq(merged, 1, j - 1) \o SubSeq(merged, j + 1, Len(merged))

\* while (changed): one merge per round, until no pair is close.
RECURSIVE mergeRects(_, _)
mergeRects(rects, gapPx) ==
  IF Len(rects) = 0 THEN rects
  ELSE IF closePairs(rects, gapPx) = {} THEN rects
  ELSE LET p == firstClosePair(rects, gapPx)
       IN mergeRects(mergePair(rects, p[1], p[2]), gapPx)

\* a lies inside b and has the smaller area.
containedInLarger(a, b) ==
  /\ a.x >= b.x
  /\ a.y >= b.y
  /\ a.x + a.w <= b.x + b.w
  /\ a.y + a.h <= b.y + b.h
  /\ (a.w * a.h) < (b.w * b.h)

RECURSIVE removeContainedFrom(_, _, _)
removeContainedFrom(rects, i, out) ==
  IF i > Len(rects) THEN out
  ELSE LET contained == \E j \in 1..Len(rects) : i # j /\ containedInLarger(rects[i], rects[j])
       IN removeContainedFrom(rects, i + 1, IF contained THEN out ELSE Append(out, rects[i]))

removeContainedRects(rects) == removeContainedFrom(rects, 1, <<>>)

(***************************************************************************)
(* SpecRects: mergeRects then removeContainedRects on a drawn list         *)
(***************************************************************************)
MaxRects == 3     \* the list has 0..MaxRects rectangles

Rect(x, y, w, h) == [x |-> x, y |-> y, w |-> w, h |-> h]

\* A big rectangle, one enclosed in it, one overlapping its corner, one
\* sharing an edge, one 2 px away, one far away, one bridging the last two.
RectPool ==
  {Rect(0, 0, 4, 4), Rect(1, 1, 2, 2), Rect(3, 3, 3, 3), Rect(4, 0, 2, 2),
   Rect(0, 6, 2, 2), Rect(9, 9, 1, 1), Rect(2, 8, 7, 1)}

\* mergeGap = Math.max(0, parseInt(opts.mergeGapPx, 10) || 2)
RectGapValues == {0, 2}

RectInit ==
  /\ rectIn \in UNION {[1..n -> RectPool] : n \in 0..MaxRects}
  /\ rectGap \in RectGapValues
  /\ rectDone = FALSE
  /\ rectMerged = <<>>
  /\ rectOut = <<>>
  /\ OthersIdle("rect")

\* rects = mergeRects(rects, mergeGap); rects = removeContainedRects(rects);
CallMergeAndRemoveContained ==
  /\ ~rectDone
  /\ rectDone' = TRUE
  /\ rectMerged' = mergeRects(rectIn, rectGap)
  /\ rectOut' = removeContainedRects(mergeRects(rectIn, rectGap))
  /\ UNCHANGED <<rectIn, rectGap>>

RectNext == CallMergeAndRemoveContained /\ OthersUnchanged("rect")

SpecRects == RectInit /\ [][RectNext]_vars

\* a lies inside b (edges may touch).
Inside(a, b) ==
  a.x >= b.x /\ a.y >= b.y /\ a.x + a.w <= b.x + b.w /\ a.y + a.h <= b.y + b.h

Area(r) == r.w * r.h

\* C10: after mergeRects then removeContainedRects no output rectangle lies
\* inside another output rectangle of larger area, and two input rectangles
\* of which one encloses the other, smaller one give the enclosing rectangle
\* alone.
C10_NoRectInsideLarger ==
  rectDone =>
     /\ \A i, j \in 1..Len(rectOut) :
          i # j => ~(Inside(rectOut[i], rectOut[j]) /\ Area(rectOut[i]) < Area(rectOut[j]))
     /\ \A i, j \in 1..Len(rectIn) :
          (Len(rectIn) = 2 /\ i # j /\ Inside(rectIn[i], rectIn[j]) /\ Area(rectIn[i]) < Area(rectIn[j]))
             => rectOut = <<rectIn[j]>>

\* C10 witness: the enclosed rectangle first, the enclosing one second, and
\* the enclosing one is all that is left.
C10_Witness ==
  /\ rectDone
  /\ rectIn = <<Rect(1, 1, 2, 2), Rect(0, 0, 4, 4)>>
  /\ rectOut = <<Rect(0, 0, 4, 4)>>

(***************************************************************************)
(* segmentDetect: separators and isolated shapes on a dark background      *)
(*                                                                         *)
(* An image is [w, h, light, dark]: two sets of rectangles.  The pixel     *)
(* (x, y) is white when it lies in a rectangle of light and in none of     *)
(* dark, and black otherwise; every pixel is opaque.                       *)
(***************************************************************************)
InRect(x, y, r) == x >= r.x /\ x < r.x + r.w /\ y >= r.y /\ y < r.y + r.h

pixelLuminanceOverWhite(image, x, y) ==
  IF (\E r \in image.light : InRect(x, y, r)) /\ ~(\E r \in image.dark : InRect(x, y, r))
  THEN 255 ELSE 0

\* Math.round of a rational >= 0
RoundRat(q) == (2 * q[1] + q[2]) \div (2 * q[2])

\* segmentDetect.darknessProfile
segDarknessProfile(image, axis, darkThreshold) ==
  IF axis = "x"
  THEN [c \in 1..image.w |->
          Fraction(Cardinality({y \in 0..(image.h - 1) :
                      pixelLuminanceOverWhite(image, c - 1, y) <= darkThreshold}), image.h)]
  ELSE [r \in 1..image.h |->
          Fraction(Cardinality({x \in 0..(image.w - 1) :
                      pixelLuminanceOverWhite(image, x, r - 1) <= darkThreshold}), image.w)]

\* segmentDetect.maxContiguousDark: k is the running coordinate.  Here and
\* below, CHOOSE once \in {e(n) : n \in {v}} : TRUE is e(v) with v computed
\* a single time: the assignment of v to a local variable.
RECURSIVE segMaxContiguousDark(_, _, _, _, _, _, _)
segMaxContiguousDark(image, axis, index, darkThreshold, k, run, maxRun) ==
  IF k >= (IF axis = "y" THEN image.w ELSE image.h) THEN maxRun
  ELSE LET L == IF axis = "y" THEN pixelLuminanceOverWhite(image, k, index)
                ELSE pixelLuminanceOverWhite(image, index, k)
       IN CHOOSE once \in
            {segMaxContiguousDark(image, axis, index, darkThreshold, n[1], n[2], n[3]) :
               n \in {<<k + 1, run1, Max2(maxRun, run1)>> :
                        run1 \in {IF L <= darkThreshold THEN run + 1 ELSE 0}}} : TRUE

\* The profile with every row (column) zeroed whose longest dark run is
\* shorter than the minimum span or whose dark fraction is too low.
filterByContiguous(image, axis, o) ==
  LET size == IF axis = "y" THEN image.w ELSE image.h
      minSpan == floorTimes(size, o.minSpanFraction)
  IN CHOOSE once \in
       {[i \in 1..Len(profile) |->
           IF segMaxContiguousDark(image, axis, i - 1, o.darkThreshold, 0, 0, 0) >= minSpan
              /\ RLe(o.darknessFraction, profile[i])
           THEN profile[i] ELSE RInt(0)] :
          profile \in {segDarknessProfile(image, axis, o.darkThreshold)}} : TRUE

\* findBands: the runs of entries > 0 no thicker than maxThick, from index i.
RECURSIVE findBands(_, _, _, _)
findBands(profile, maxThick, i, bands) ==
  IF i >= Len(profile) THEN bands
  ELSE IF RLt(RInt(0), At(profile, i))
       THEN LET runStop == CHOOSE j \in (i + 1)..Len(profile) :
                             /\ \A k \in i..(j - 1) : RLt(RInt(0), At(profile, k))
                             /\ (j = Len(profile) \/ ~RLt(RInt(0), At(profile, j)))
                withBand(stop) ==
                  IF stop - i <= maxThick
                  THEN Append(bands, [start |-> i, end |-> stop,
                                      mid |-> RAdd(RInt(i), Rat(stop - i, 2))])
                  ELSE bands
            IN CHOOSE once \in
                 {findBands(profile, maxThick, n[1], n[2]) :
                    n \in {<<stop, withBand(stop)>> : stop \in {runStop}}} : TRUE
       ELSE CHOOSE once \in
              {findBands(profile, maxThick, n[1], n[2]) : n \in {<<i + 1, bands>>}} : TRUE

\* mergeBands: the bands come sorted by start; k is 0-based.
RECURSIVE mergeBands(_, _, _, _)
mergeBands(bands, maxGap, k, out) ==
  IF Len(bands) <= 1 THEN bands
  ELSE IF k >= Len(bands) THEN out
  ELSE LET prev == out[Len(out)]
           cur == At(bands, k)
       IN CHOOSE once \in
            {mergeBands(bands, maxGap, n[1], n[2]) :
               n \in {<<k + 1,
                        IF cur.start - prev.end <= maxGap
                        THEN [out EXCEPT ![Len(out)] =
                                [start |-> prev.start, end |-> cur.end,
                                 mid |-> RDivInt(RAdd(prev.mid, cur.mid), 2)]]
                        ELSE Append(out, cur)>>}} : TRUE

\* detectAdjacentDarkSeparators(image, options): one full-span segment per
\* merged band, the rows first.
detectAdjacentDarkSeparators(image, options, canvasOk) ==
  LET o == [darkThreshold |-> Min2(255, Max2(0, parseIntOr(options.darkThreshold, 100))),
            minSpanFraction |-> numberOr(options.minSpanFraction, Rat(4, 10)),
            darknessFraction |-> numberOr(options.darknessFraction, Rat(5, 10))]
      maxThicknessPx == Max2(1, parseIntOr(options.maxThicknessPx, 10))
      mergeGapPx == Max2(0, parseIntOr(options.mergeGapPx, 2))
      bandsOf(axis) ==
        CHOOSE once \in
          {mergeBands(found, mergeGapPx, 1, IF found = <<>> THEN <<>> ELSE <<found[1]>>) :
             found \in {findBands(profile, maxThicknessPx, 0, <<>>) :
                          profile \in {filterByContiguous(image, axis, o)}}} : TRUE
      rowSegments(rowBands) ==
        [r \in 1..Len(rowBands) |->
           [x1 |-> RInt(0), y1 |-> rowBands[r].mid, x2 |-> RInt(image.w), y2 |-> rowBands[r].mid]]
      colSegments(colBands) ==
        [c \in 1..Len(colBands) |->
           [x1 |-> colBands[c].mid, y1 |-> RInt(0), x2 |-> colBands[c].mid, y2 |-> RInt(image.h)]]
  IN IF image.w = 0 \/ image.h = 0 \/ ~canvasOk THEN <<>>
     ELSE CHOOSE once \in
            {rowSegments(b[1]) \o colSegments(b[2]) :
               b \in {<<bandsOf("y"), bandsOf("x")>>}} : TRUE

\* buildSeparatorMask(image, options).  The mask is given by the rows and the
\* columns it sets: mask[y * w + x] = 1 when y is in rows or x is in cols.
buildSeparatorMask(image, options, canvasOk) ==
  LET tol == RInt(2)
      isRow(s) == RLe(RAbs(RSub(s.y1, s.y2)), tol)
      isCol(s) == ~isRow(s) /\ RLe(RAbs(RSub(s.x1, s.x2)), tol)
      rowOf(s) == Max2(0, Min2(image.h - 1, RoundRat(RDivInt(RAdd(s.y1, s.y2), 2))))
      colOf(s) == Max2(0, Min2(image.w - 1, RoundRat(RDivInt(RAdd(s.x1, s.x2), 2))))
      maskOf(segs) ==
        [rows |-> {rowOf(segs[i]) : i \in {k \in 1..Len(segs) : isRow(segs[k])}},
         cols |-> {colOf(segs[i]) : i \in {k \in 1..Len(segs) : isCol(segs[k])}}]
  IN IF image.w = 0 \/ image.h = 0 THEN [rows |-> {}, cols |-> {}]
     ELSE CHOOSE once \in
            {maskOf(segs) :
               segs \in {detectAdjacentDarkSeparators(image, options, canvasOk)}} : TRUE

\* Mutant: the content mask without the separator pixels taken out.
contentMaskWithSeparators(image, separatorMask, darkBgThreshold) ==
  {p \in (0..(image.w - 1)) \X (0..(image.h - 1)) :
     pixelLuminanceOverWhite(image, p[1], p[2]) > darkBgThreshold}

\* contentMask: the pixels <<x, y>> brighter than the background and not in
\* the separator mask.
contentMask(image, separatorMask, darkBgThreshold) ==
  {p \in (0..(image.w - 1)) \X (0..(image.h - 1)) :
     /\ pixelLuminanceOverWhite(image, p[1], p[2]) > darkBgThreshold
     /\ ~(p[2] \in separatorMask.rows \/ p[1] \in separatorMask.cols)}

\* The flood fill from the pixels of frontier: seen grows by the 4-neighbours
\* that are in the mask, until the queue is empty.
RECURSIVE fillFrom(_, _, _)
fillFrom(mask, frontier, seen) ==
  IF frontier = {} THEN seen
  ELSE LET reached == {n \in UNION {{<<q[1] - 1, q[2]>>, <<q[1] + 1, q[2]>>,
                                      <<q[1], q[2] - 1>>, <<q[1], q[2] + 1>>} : q \in frontier} :
                         n \in mask /\ n \notin seen}
       IN CHOOSE once \in
            {fillFrom(mask, n[1], n[2]) :
               n \in {<<next, seen \cup next>> : next \in {reached}}} : TRUE

\* The components in the order of the scan (yy outer, xx inner) that starts
\* them: left is the part of the mask not visited yet.
RECURSIVE shapeComponents(_, _)
shapeComponents(mask, left) ==
  IF left = {} THEN <<>>
  ELSE LET start == CHOOSE p \in left :
                      \A q \in left : p[2] < q[2] \/ (p[2] = q[2] /\ p[1] <= q[1])
       IN CHOOSE once \in
            {<<n[1]>> \o shapeComponents(mask, n[2]) :
               n \in {<<comp, left \ comp>> :
                        comp \in {fillFrom(mask, {start}, {start})}}} : TRUE

\* rects.sort(function (a, b) { return a.y !== b.y ? a.y - b.y : a.x - b.x; })
RECURSIVE sortRects(_)
sortRects(rects) ==
  LET before(a, b) == IF a.y # b.y THEN a.y < b.y ELSE a.x <= b.x
      last == rects[Len(rects)]
      insert(front) ==
        LET keep == Cardinality({k \in 1..Len(front) : before(front[k], last)})
        IN SubSeq(front, 1, keep) \o <<last>> \o SubSeq(front, keep + 1, Len(front))
  IN IF rects = <<>> THEN <<>>
     ELSE CHOOSE once \in
            {insert(front) : front \in {sortRects(SubSeq(rects, 1, Len(rects) - 1))}} : TRUE

\* The run of detectIsolatedShapesOnBlackBg: the separator mask, the
\* components of the flood fill and the rectangles returned.  The options
\* other than padPx, mergeGapPx and maxThicknessPx are absent.
isolatedShapes(image, options, canvasOk) ==
  LET darkBgThreshold == 80
      pad == Max2(0, parseIntOr(options.padPx, 1))
      mergeGap == Max2(0, parseIntOr(options.mergeGapPx, 2))
      sepOpts == [darkThreshold |-> {90}, minSpanFraction |-> {Rat(45, 100)},
                  darknessFraction |-> {Rat(5, 10)},
                  maxThicknessPx |-> {parseIntOr(options.maxThicknessPx, 12)},
                  mergeGapPx |-> {parseIntOr(options.mergeGapPx, 2)}]
      w == image.w
      h == image.h
      minArea == Max2(20, floorTimes(w * h, Rat(8, 1000)))
      minW == Max2(8, floorTimes(w, Rat(5, 100)))
      minH == Max2(8, floorTimes(h, Rat(5, 100)))
      minX(c) == CHOOSE v \in {p[1] : p \in c} : \A p \in c : v <= p[1]
      maxX(c) == CHOOSE v \in {p[1] : p \in c} : \A p \in c : v >= p[1]
      minY(c) == CHOOSE v \in {p[2] : p \in c} : \A p \in c : v <= p[2]
      maxY(c) == CHOOSE v \in {p[2] : p \in c} : \A p \in c : v >= p[2]
      keptOf(comps) ==
        SelectSeq(comps, LAMBDA c : ~(maxX(c) - minX(c) + 1 < minW
                                      \/ maxY(c) - minY(c) + 1 < minH
                                      \/ Cardinality(c) < minArea))
      rectOf(c) ==
        [x |-> Max2(0, minX(c) - pad),
         y |-> Max2(0, minY(c) - pad),
         w |-> Min2(w, maxX(c) + 1 + pad) - Max2(0, minX(c) - pad),
         h |-> Min2(h, maxY(c) + 1 + pad) - Max2(0, minY(c) - pad)]
      rectsOf(kept) == [k \in 1..Len(kept) |-> rectOf(kept[k])]
      finish(rects) ==
        CHOOSE once \in
          {sortRects(kept) :
             kept \in {removeContainedRects(merged) :
                         merged \in {mergeRects(rects, mergeGap)}}} : TRUE
      rectsOfComponents(comps) ==
        CHOOSE once \in
          {finish(rects) :
             rects \in {rectsOf(kept) : kept \in {keptOf(comps)}}} : TRUE
  IN IF w = 0 \/ h = 0 \/ ~canvasOk
     THEN [separatorMask |-> [rows |-> {}, cols |-> {}], components |-> <<>>, rects |-> <<>>]
     ELSE CHOOSE once \in
            {[separatorMask |-> n[1], components |-> n[2], rects |-> n[3]] :
               n \in UNION {{<<separatorMask, comps, rectsOfComponents(comps)>> :
                               comps \in {shapeComponents(mask, mask) :
                                            mask \in {contentMask(image, separatorMask,
                                                                  darkBgThreshold)}}} :
                             separatorMask \in {buildSeparatorMask(image, sepOpts,
                                                                   canvasOk)}}} : TRUE

detectIsolatedShapesOnBlackBg(image, options, canvasOk) ==
  isolatedShapes(image, options, canvasOk).rects

(***************************************************************************)
(* SpecShapes: one call of detectIsolatedShapesOnBlackBg on a drawn image  *)
(***************************************************************************)
ShapeW == 10      \* image width in px (height of the turned images)
ShapeH == 22      \* image height in px (width of the turned images)

Upright(light, dark) == [w |-> ShapeW, h |-> ShapeH, light |-> light, dark |-> dark]

\* The image turned a quarter: x and y change places.
Turned(image) ==
  LET turn(r) == Rect(r.y, r.x, r.h, r.w)
  IN [w |-> image.h, h |-> image.w,
      light |-> {turn(r) : r \in image.light}, dark |-> {turn(r) : r \in image.dark}]

WholeImage == Rect(0, 0, ShapeW, ShapeH)

\* White images with a dark band across (1 px, 5 px, 14 px; all the way or
\* part of the way), two white shapes on black (2 px and 6 px apart), an all
\* white and an all black image.
UprightImages ==
  {Upright({WholeImage}, {}),
   Upright({}, {}),
   Upright({WholeImage}, {Rect(0, 10, ShapeW, 1)}),
   Upright({WholeImage}, {Rect(0, 9, ShapeW, 5)}),
   Upright({WholeImage}, {Rect(0, 10, 6, 1)}),
   Upright({WholeImage}, {Rect(0, 9, 6, 5)}),
   Upright({WholeImage}, {Rect(0, 10, 3, 1)}),
   Upright({WholeImage}, {Rect(0, 4, ShapeW, 14)}),
   Upright({Rect(0, 1, ShapeW, 9), Rect(0, 12, ShapeW, 9)}, {}),
   Upright({Rect(0, 0, ShapeW, 8), Rect(0, 14, ShapeW, 8)}, {})}

ShapeImages ==
  UprightImages \cup {Turned(i) : i \in UprightImages}
  \cup {[w |-> 0, h |-> 0, light |-> {}, dark |-> {}],
        [w |-> 0, h |-> ShapeH, light |-> {}, dark |-> {}],
        [w |-> ShapeW, h |-> 0, light |-> {}, dark |-> {}]}

ShapeDefaults == [padPx |-> {}, mergeGapPx |-> {}, maxThicknessPx |-> {}, canvasOk |-> TRUE]

ShapeOptions ==
  {[ShapeDefaults EXCEPT !.padPx = pad, !.mergeGapPx = mg] :
      pad \in {{}, {-1}, {2}}, mg \in {{}, {-1}, {3}}}
  \cup {[ShapeDefaults EXCEPT !.canvasOk = FALSE]}

ShapeInit ==
  /\ shapeImage \in ShapeImages
  /\ shapeOpts \in ShapeOptions
  /\ shapeDone = FALSE
  /\ shapeResult = <<>>
  /\ OthersIdle("shape")

CallDetectIsolatedShapes ==
  /\ ~shapeDone
  /\ shapeDone' = TRUE
  /\ shapeResult' = isolatedShapes(shapeImage, shapeOpts, shapeOpts.canvasOk)
  /\ UNCHANGED <<shapeImage, shapeOpts>>

ShapeNext == CallDetectIsolatedShapes /\ OthersUnchanged("shape")

SpecShapes == ShapeInit /\ [][ShapeNext]_vars

(***************************************************************************)
(* Claims about detectIsolatedShapesOnBlackBg                              *)
(***************************************************************************)
ShapesRan == shapeDone /\ shapeImage.w > 0 /\ shapeImage.h > 0 /\ shapeOpts.canvasOk

\* The pixels of the set c lie on one side of row y (of column x).
OneSideOfRow(c, y) == (\A p \in c : p[2] < y) \/ (\A p \in c : p[2] > y)
OneSideOfCol(c, x) == (\A p \in c : p[1] < x) \/ (\A p \in c : p[1] > x)

\* C11: no component of the flood fill holds a pixel of the separator mask,
\* and no component has pixels on both sides of a separator line of the
\* mask, whether or not the dark line in the image runs all the way across.
C11_ComponentsKeepToOneSide ==
  ShapesRan =>
     \A k \in 1..Len(shapeResult.components) :
        /\ \A y \in shapeResult.separatorMask.rows : OneSideOfRow(shapeResult.components[k], y)
        /\ \A x \in shapeResult.separatorMask.cols : OneSideOfCol(shapeResult.components[k], x)

\* C11 witness: the dark line stops at x = 6 and the image is white from
\* there on; the mask row still gives one component above and one below.
C11_Witness ==
  /\ ShapesRan
  /\ shapeImage = Upright({WholeImage}, {Rect(0, 10, 6, 1)})
  /\ shapeResult.separatorMask.rows = {11}
  /\ Len(shapeResult.components) = 2
  /\ <<9, 10>> \in shapeResult.components[1]
  /\ <<9, 12>> \in shapeResult.components[2]

\* The rectangle r has pixels on both sides of row y (of column x).
SpansRow(r, y) == r.y < y /\ r.y + r.h > y + 1
SpansCol(r, x) == r.x < x /\ r.x + r.w > x + 1

\* C12 as stated: with the default padPx and mergeGapPx no returned
\* rectangle spans a separator line of the mask.
C12_AsStated ==
  (ShapesRan /\ shapeOpts.padPx = {} /\ shapeOpts.mergeGapPx = {}) =>
     \A k \in 1..Len(shapeResult.rects) :
        /\ \A y \in shapeResult.separatorMask.rows : ~SpansRow(shapeResult.rects[k], y)
        /\ \A x \in shapeResult.separatorMask.cols : ~SpansCol(shapeResult.rects[k], x)

(***************************************************************************)
(* SpecProf: the signal extractors of gridDetect on a drawn pixel buffer,  *)
(* zero-sized ones included                                                *)
(***************************************************************************)
ProfW == 2        \* the buffer is 0..ProfW px wide
ProfH == 2        \* and 0..ProfH px high

ProfInit ==
  /\ profImage \in UNION {{[w |-> w, h |-> h, darkCols |-> dc, darkRows |-> dr] :
                              dc \in SUBSET (0..(w - 1)), dr \in SUBSET (0..(h - 1))} :
                            w \in 0..ProfW, h \in 0..ProfH}
  /\ profAxis \in {"x", "y"}
  /\ profCall = ""
  /\ profOut = <<>>
  /\ OthersIdle("prof")

\* darknessProfile(data, w, h, axis, blackThreshold) with the default
\* threshold
CallDarknessProfile ==
  /\ profCall = ""
  /\ profCall' = "darknessProfile"
  /\ profOut' = darknessProfile(profImage, profAxis, 80)
  /\ UNCHANGED <<profImage, profAxis>>

\* lineAwareProfile(data, w, h, axis, blackThreshold, minSpanFraction) with
\* the default threshold and span
CallLineAwareProfile ==
  /\ profCall = ""
  /\ profCall' = "lineAwareProfile"
  /\ profOut' = lineAwareProfile(profImage, profAxis, 80, Rat(35, 100))
  /\ UNCHANGED <<profImage, profAxis>>

ProfNext ==
  \/ CallDarknessProfile /\ OthersUnchanged("prof")
  \/ CallLineAwareProfile /\ OthersUnchanged("prof")

SpecProf == ProfInit /\ [][ProfNext]_vars

Nearest(n, lo, hi) == IF n < lo THEN lo ELSE IF n > hi THEN hi ELSE n

\* C14 as stated, seen through the result: a gridCols or gridRows given as an
\* integer is replaced by the nearest bound of 1..4, so xBounds has that many
\* entries plus one, and yBounds likewise.
C14_AsStated ==
  Detected =>
     /\ gridOpts.gridCols # {} =>
          Len(gridResult.xBounds) = Nearest(CHOOSE n \in gridOpts.gridCols : TRUE, 1, 4) + 1
     /\ gridOpts.gridRows # {} =>
          Len(gridResult.yBounds) = Nearest(CHOOSE n \in gridOpts.gridRows : TRUE, 1, 4) + 1


(***************************************************************************)
(* SpecTwice: a detector called more than once on one pixel buffer with    *)
(* the same options.  gridDetect.js and segmentDetect.js declare no        *)
(* variable outside their functions, and every function reads data[p]      *)
(* without assigning to it, so a call leaves the buffer and the options as *)
(* it found them.                                                          *)
(***************************************************************************)
MaxRuns == 2      \* calls of the detector on one buffer

TwiceInit ==
  /\ \/ /\ twiceKind = "detectGridLines"
        /\ twiceBuffer \in GridImages
        /\ twiceOpts \in {DefaultOptions, [DefaultOptions EXCEPT !.minGap = {2}]}
     \/ /\ twiceKind = "detectIsolatedShapesOnBlackBg"
        /\ twiceBuffer \in ShapeImages
        /\ twiceOpts \in ShapeOptions
  /\ twiceRuns = <<>>
  /\ OthersIdle("twice")

\* A detector that binarises the buffer it is given: after the call every
\* pixel reads white.
CallDetectGridLinesInPlace ==
  /\ twiceKind = "detectGridLines"
  /\ Len(twiceRuns) < MaxRuns
  /\ twiceRuns' = Append(twiceRuns, detectGridLines(twiceBuffer, twiceOpts, twiceOpts.canvasOk))
  /\ twiceBuffer' = [twiceBuffer EXCEPT !.darkCols = {}, !.darkRows = {}]
  /\ UNCHANGED <<twiceKind, twiceOpts>>

CallDetectGridLinesAgain ==
  /\ twiceKind = "detectGridLines"
  /\ Len(twiceRuns) < MaxRuns
  /\ twiceRuns' = Append(twiceRuns, detectGridLines(twiceBuffer, twiceOpts, twiceOpts.canvasOk))
  /\ UNCHANGED <<twiceKind, twiceBuffer, twiceOpts>>

CallDetectIsolatedShapesAgain ==
  /\ twiceKind = "detectIsolatedShapesOnBlackBg"
  /\ Len(twiceRuns) < MaxRuns
  /\ twiceRuns' =
       Append(twiceRuns,
              detectIsolatedShapesOnBlackBg(twiceBuffer, twiceOpts, twiceOpts.canvasOk))
  /\ UNCHANGED <<twiceKind, twiceBuffer, twiceOpts>>

TwiceNext ==
  \/ CallDetectGridLinesAgain /\ OthersUnchanged("twice")
  \/ CallDetectIsolatedShapesAgain /\ OthersUnchanged("twice")

SpecTwice == TwiceInit /\ [][TwiceNext]_vars

Fulfilled(value) == [state |-> "fulfilled", value |-> value]
RejectedNow(reason) == [state |-> "rejected", reason |-> reason, late |-> FALSE]
RejectedLate(reason) == [state |-> "rejected", reason |-> reason, late |-> TRUE]

Resolved(tiles) == [outcome |-> "resolved", error |-> "", tiles |-> tiles]
Rejected(reason) == [outcome |-> "rejected", error |-> reason, tiles |-> <<>>]
Thrown(reason) == [outcome |-> "thrown", error |-> reason, tiles |-> <<>>]

\* Mutant: what Promise.allSettled followed by a filter would give, the
\* tiles that could be cut.
promiseAllFulfilled(promises) ==
  Resolved(LET kept == SelectSeq(promises, LAMBDA q : q.state = "fulfilled")
           IN [k \in 1..Len(kept) |-> kept[k].value])

\* Promise.all(promises): rejected with the reason of the promise that is
\* rejected first, the already rejected ones before the late ones, and
\* fulfilled with all the values in the order of the promises otherwise.
promiseAll(promises) ==
  LET now == {k \in 1..Len(promises) : promises[k].state = "rejected" /\ ~promises[k].late}
      late == {k \in 1..Len(promises) : promises[k].state = "rejected" /\ promises[k].late}
      first(S) == CHOOSE k \in S : \A j \in S : k <= j
  IN IF now # {} THEN Rejected(promises[first(now)].reason)
     ELSE IF late # {} THEN Rejected(promises[first(late)].reason)
     ELSE Resolved([k \in 1..Len(promises) |-> promises[k].value])

\* The body of the loops once the tile canvas exists: getContext, drawImage
\* of the source rectangle, toBlobAsync.
tilePromise(canvas, source) ==
  IF canvas = "noContext" THEN RejectedNow("getContext 2d failed")
  ELSE IF canvas = "toBlobFails" THEN RejectedLate("toBlob failed")
  ELSE Fulfilled(source)

\* Math.max(0, parseInt(opts.trimPixels, 10) || 0)
trimOf(options) == Max2(0, parseIntOr(options.trimPixels, 0))

\* Mutant: the tile as large as the whole cell, the trim only moving it.
tile4x4WholeCell(r, c, cellW, cellH, trim) ==
  Rect(c * cellW + trim, r * cellH + trim, cellW, cellH)

\* sx, sy, outW, outH of the tile in row r, column c.
tile4x4(r, c, cellW, cellH, trim) ==
  Rect(c * cellW + trim, r * cellH + trim, cellW - 2 * trim, cellH - 2 * trim)

splitGrid4x4(image, options, canvas) ==
  LET trim == trimOf(options)
      cellW == image.w \div 4
      cellH == image.h \div 4
      outW == cellW - 2 * trim
      outH == cellH - 2 * trim
  IN IF outW <= 0 \/ outH <= 0 THEN Rejected("Trim too large for image size")
     ELSE IF canvas = "noCanvas" THEN Thrown("Canvas not available")
     ELSE promiseAll([k \in 1..16 |->
            tilePromise(canvas, tile4x4((k - 1) \div 4, (k - 1) % 4, cellW, cellH, trim))])

\* sx, sy, cw, ch of the cell in row r, column c.
customCell(xBounds, yBounds, r, c, trim) ==
  Rect(RoundRat(At(xBounds, c)) + trim,
       RoundRat(At(yBounds, r)) + trim,
       RoundRat(RSub(At(xBounds, c + 1), At(xBounds, c))) - 2 * trim,
       RoundRat(RSub(At(yBounds, r + 1), At(yBounds, r))) - 2 * trim)

\* The promise pushed for row r, column c by splitGridCustom.
customPromise(xBounds, yBounds, r, c, trim, canvas) ==
  LET cell == customCell(xBounds, yBounds, r, c, trim)
  IN IF cell.w <= 0 \/ cell.h <= 0
     THEN RejectedNow("Cell " \o ToString(r) \o "," \o ToString(c) \o " has non-positive size")
     ELSE tilePromise(canvas, cell)

\* splitGridCustom(image, xBounds, yBounds, options, adapter); a missing
\* bounds array is <<>>.  createCanvas throws at the first cell of positive
\* size when there is no canvas.
splitGridCustom(image, xBounds, yBounds, options, canvas) ==
  LET trim == trimOf(options)
      rowOf(k) == (k - 1) \div 4
      colOf(k) == (k - 1) % 4
      positive(k) ==
        LET cell == customCell(xBounds, yBounds, rowOf(k), colOf(k), trim)
        IN cell.w > 0 /\ cell.h > 0
  IN IF Len(xBounds) # 5 \/ Len(yBounds) # 5
     THEN Rejected("xBounds and yBounds must be arrays of 5 numbers")
     ELSE IF canvas = "noCanvas" /\ \E k \in 1..16 : positive(k)
     THEN Thrown("Canvas not available")
     ELSE promiseAll([k \in 1..16 |->
            customPromise(xBounds, yBounds, rowOf(k), colOf(k), trim, canvas)])

(***************************************************************************)
(* SpecSplit: one call of splitGrid4x4 or of splitGridCustom               *)
(***************************************************************************)
MaxSplitSide == 13    \* image sides 0..MaxSplitSide for splitGrid4x4
MaxTrim == 2          \* trimPixels -1..MaxTrim, or absent

CanvasLayers == {"ok", "noCanvas", "noContext", "toBlobFails"}
TrimOptions == {{}} \cup {{t} : t \in (-1)..MaxTrim}

Ints(s) == [k \in 1..Len(s) |-> RInt(s[k])]

\* Bounds arrays handed to splitGridCustom: of 5 entries, whole and
\* fractional, with an empty and a narrow cell, of 4 and of 6 entries, and
\* a missing one.
BoundsPool ==
  {Ints(<<0, 4, 8, 12, 16>>),
   <<RInt(0), Rat(33, 4), Rat(33, 2), Rat(99, 4), RInt(33)>>,
   Ints(<<0, 4, 4, 12, 16>>),
   Ints(<<0, 2, 5, 7, 10>>),
   Ints(<<0, 4, 8, 12>>),
   Ints(<<0, 3, 6, 9, 12, 15>>),
   <<>>}

SplitInit ==
  /\ \/ /\ splitImage \in [w : 0..MaxSplitSide, h : 0..MaxSplitSide]
        /\ splitArgs \in [op : {"splitGrid4x4"}, trimPixels : TrimOptions,
                          xBounds : {<<>>}, yBounds : {<<>>}, canvas : CanvasLayers]
     \/ /\ splitImage \in [w : {33}, h : {16}]
        /\ splitArgs \in [op : {"splitGridCustom"}, trimPixels : TrimOptions,
                          xBounds : BoundsPool, yBounds : BoundsPool, canvas : CanvasLayers]
  /\ splitCall = ""
  /\ splitOut = <<>>
  /\ OthersIdle("split")

CallSplitGrid4x4 ==
  /\ splitCall = ""
  /\ splitArgs.op = "splitGrid4x4"
  /\ splitCall' = "splitGrid4x4"
  /\ splitOut' = splitGrid4x4(splitImage, splitArgs, splitArgs.canvas)
  /\ UNCHANGED <<splitImage, splitArgs>>

CallSplitGridCustom ==
  /\ splitCall = ""
  /\ splitArgs.op = "splitGridCustom"
  /\ splitCall' = "splitGridCustom"
  /\ splitOut' = splitGridCustom(splitImage, splitArgs.xBounds, splitArgs.yBounds,
                                 splitArgs, splitArgs.canvas)
  /\ UNCHANGED <<splitImage, splitArgs>>

SplitNext ==
  \/ CallSplitGrid4x4 /\ OthersUnchanged("split")
  \/ CallSplitGridCustom /\ OthersUnchanged("split")

SpecSplit == SplitInit /\ [][SplitNext]_vars

(***************************************************************************)
(* Claims about gridSplit                                                  *)
(***************************************************************************)
Disjoint(a, b) ==
  a.x + a.w <= b.x \/ b.x + b.w <= a.x \/ a.y + a.h <= b.y \/ b.y + b.h <= a.y

InsideImage(r, image) ==
  r.x >= 0 /\ r.y >= 0 /\ r.x + r.w <= image.w /\ r.y + r.h <= image.h

\* C16: with t the trim in force, splitGrid4x4 rejects with 'Trim too large
\* for image size' exactly when floor(w/4) - 2t <= 0 or floor(h/4) - 2t <= 0;
\* otherwise, on a working canvas, it resolves with 16 tiles in row-major
\* order, tile (r, c) being the (floor(w/4) - 2t) x (floor(h/4) - 2t)
\* rectangle at (c*floor(w/4) + t, r*floor(h/4) + t), the tiles pairwise
\* disjoint and inside the image.
C16_SixteenTilesOrTrimTooLarge ==
  splitCall = "splitGrid4x4" =>
    LET t == IF splitArgs.trimPixels = {} THEN 0
             ELSE Max2(0, CHOOSE v \in splitArgs.trimPixels : TRUE)
        cw == splitImage.w \div 4
        ch == splitImage.h \div 4
        tooLarge == cw - 2 * t <= 0 \/ ch - 2 * t <= 0
        tiles == splitOut.tiles
    IN /\ tooLarge <=> (splitOut.outcome = "rejected"
                         /\ splitOut.error = "Trim too large for image size")
       /\ (~tooLarge /\ splitArgs.canvas = "ok") =>
            /\ splitOut.outcome = "resolved"
            /\ Len(tiles) = 16
            /\ \A r \in 0..3, c \in 0..3 :
                 tiles[4 * r + c + 1] = Rect(c * cw + t, r * ch + t, cw - 2 * t, ch - 2 * t)
            /\ \A i, j \in 1..16 : i # j => Disjoint(tiles[i], tiles[j])
            /\ \A i \in 1..16 : InsideImage(tiles[i], splitImage)

\* C16 witness: a 13 x 13 image with trim 1 resolves with 1 x 1 tiles, the
\* last at (10, 10).
C16_Witness ==
  /\ splitCall = "splitGrid4x4"
  /\ splitImage = [w |-> 13, h |-> 13]
  /\ splitArgs.trimPixels = {1}
  /\ splitOut.outcome = "resolved"
  /\ Len(splitOut.tiles) = 16
  /\ splitOut.tiles[16] = Rect(10, 10, 1, 1)

\* The cell (r, c) of the bounds has a positive size left after the trim.
CellPositive(xBounds, yBounds, r, c, t) ==
  /\ RoundRat(RSub(xBounds[c + 2], xBounds[c + 1])) - 2 * t > 0
  /\ RoundRat(RSub(yBounds[r + 2], yBounds[r + 1])) - 2 * t > 0

\* C17: splitGridCustom rejects when xBounds or yBounds has not exactly 5
\* entries; on a working canvas it rejects when one of the 16 cells has
\* round(width) - 2*trim <= 0 or round(height) - 2*trim <= 0 and resolves
\* with 16 tiles in row-major order otherwise; whatever the canvas does, a
\* resolved call never holds fewer than 16 tiles.
C17_AllSixteenOrRejected ==
  splitCall = "splitGridCustom" =>
    LET t == IF splitArgs.trimPixels = {} THEN 0
             ELSE Max2(0, CHOOSE v \in splitArgs.trimPixels : TRUE)
        xb == splitArgs.xBounds
        yb == splitArgs.yBounds
        five == Len(xb) = 5 /\ Len(yb) = 5
        allPositive == \A r \in 0..3, c \in 0..3 : CellPositive(xb, yb, r, c, t)
    IN /\ ~five => splitOut.outcome = "rejected"
       /\ (five /\ ~allPositive /\ splitArgs.canvas = "ok") => splitOut.outcome = "rejected"
       /\ (five /\ allPositive /\ splitArgs.canvas = "ok") =>
            /\ splitOut.outcome = "resolved"
            /\ \A r \in 0..3, c \in 0..3 :
                 /\ splitOut.tiles[4 * r + c + 1].x = RoundRat(xb[c + 1]) + t
                 /\ splitOut.tiles[4 * r + c + 1].y = RoundRat(yb[r + 1]) + t
       /\ splitOut.outcome = "resolved" => Len(splitOut.tiles) = 16
       /\ splitOut.outcome # "resolved" => splitOut.tiles = <<>>

\* C17 witness: one empty cell column among otherwise good bounds, and the
\* call is rejected as a whole.
C17_Witness ==
  /\ splitCall = "splitGridCustom"
  /\ splitArgs.xBounds = Ints(<<0, 4, 4, 12, 16>>)
  /\ splitArgs.yBounds = Ints(<<0, 4, 8, 12, 16>>)
  /\ splitArgs.canvas = "ok"
  /\ splitOut.outcome = "rejected"
  /\ splitOut.error = "Cell 0,1 has non-positive size"

(***************************************************************************)
(* SpecExport: the uniform mode.  detectGridLines runs on the image with   *)
(* gridCols and gridRows chosen in 1..4 (or left out), and the bounds it   *)
(* returns go to splitGridCustom with no trim on a working canvas.         *)
(***************************************************************************)
ExportImages == {image \in GridImages : image.w > 0 /\ image.darkRows \in {{}, {2, 4, 6}}}

ExportOptions ==
  {[DefaultOptions EXCEPT !.gridCols = gc, !.gridRows = gr] :
      gc \in {{}, {1}, {2}, {3}, {4}}, gr \in {{}, {1}, {2}, {3}, {4}}}

ExportInit ==
  /\ gridImage \in ExportImages
  /\ gridOpts \in ExportOptions
  /\ gridDone = FALSE
  /\ gridResult = <<>>
  /\ OthersIdle("grid")

CallExportUniform ==
  /\ Detected
  /\ splitCall = ""
  /\ splitCall' = "splitGridCustom"
  /\ splitImage' = [w |-> gridImage.w, h |-> gridImage.h]
  /\ splitArgs' = [op |-> "splitGridCustom", trimPixels |-> {},
                   xBounds |-> gridResult.xBounds, yBounds |-> gridResult.yBounds,
                   canvas |-> "ok"]
  /\ splitOut' = splitGridCustom([w |-> gridImage.w, h |-> gridImage.h],
                                 gridResult.xBounds, gridResult.yBounds,
                                 [trimPixels |-> {}], "ok")

ExportNext ==
  \/ CallDetectGridLines /\ OthersUnchanged("grid")
  \/ CallExportUniform /\ OthersUnchanged("split")

SpecExport == ExportInit /\ [][ExportNext]_vars

\* C18 as stated: for gridCols and gridRows in 1..4 the bounds returned by
\* detectGridLines pass the validation of splitGridCustom, and the export
\* resolves with one tile for each of the gridCols x gridRows cells.
C18_AsStated ==
  (gridDone /\ splitCall = "splitGridCustom") =>
     /\ splitOut.error # "xBounds and yBounds must be arrays of 5 numbers"
     /\ splitOut.outcome = "resolved"
     /\ Len(splitOut.tiles) = CellsAsked(gridOpts.gridCols) * CellsAsked(gridOpts.gridRows)

(***************************************************************************)
(* api/generate-cells: the reply of the model turned into the cells of the *)
(* response.  There are two handlers: the one with normalizeCells and the  *)
(* plain one that slices and pads in the handler itself.                   *)
(*                                                                         *)
(* A JavaScript scalar is [t, v]: its type and its text.  An element of    *)
(* the reply is [t, v, p, q, r]: a scalar (t, v), an object with the keys  *)
(* name (p), description (q) and title (r), or an array [p, q]; a key that *)
(* is not there holds JsUndef.  The objects have at most two keys, for     *)
(* which mapObjectToArray returns null.  The request is a POST with a JSON *)
(* body and no cellTypes, and OPENAI_API_KEY is set.                       *)
(***************************************************************************)
JsStr(s) == [t |-> "string", v |-> s]
JsNum(s) == [t |-> "number", v |-> s]
JsUndef == [t |-> "undefined", v |-> ""]
JsNull == [t |-> "null", v |-> ""]

ItemScalar(x) == [t |-> x.t, v |-> x.v, p |-> JsUndef, q |-> JsUndef, r |-> JsUndef]
ItemObject(name, description, title) ==
  [t |-> "object", v |-> "", p |-> name, q |-> description, r |-> title]
ItemPair(a, b) == [t |-> "array", v |-> "", p |-> a, q |-> b, r |-> JsUndef]

\* c.name, c.description, c.title
nameOf(c) == IF c.t = "object" THEN c.p ELSE JsUndef
descriptionOf(c) == IF c.t = "object" THEN c.q ELSE JsUndef
titleOf(c) == IF c.t = "object" THEN c.r ELSE JsUndef

\* x != null; !x; String(x) for a string or a number
present(x) == x.t \notin {"undefined", "null"}
falsy(x) == ~present(x) \/ (x.t = "string" /\ x.v = "") \/ (x.t = "number" /\ x.v = "0")
String(x) == JsStr(x.v)

\* String.prototype.trim on the texts of the replies
trimText(s) ==
  CASE s = "  " -> ""
    [] s = " Kiwi " -> "Kiwi"
    [] OTHER -> s

NumberedText == "1. North\n2. East\n3. South\n4. West"

\* parseNumberedLinesFromText
parseNumberedLinesFromText(text) ==
  IF text = NumberedText THEN <<"North", "East", "South", "West">> ELSE <<>>

\* The cell count of the request: body.cellCount is [t, n] with t
\* "undefined", "integer", "fraction" (n its integer part) or "string";
\* body.gridSize is {} or {n}.
cellCountOf(body) ==
  IF body.cellCount.t = "integer" /\ body.cellCount.n >= 1 /\ body.cellCount.n <= 100
  THEN body.cellCount.n
  ELSE LET gridSize == Min2(4, Max2(2, parseIntOr(body.gridSize, 4)))
       IN gridSize * gridSize

\* scoreCandidate(arr)
scoreCandidate(arr, cellCount) ==
  LET len == Len(arr)
      filled(x) == present(x) /\ trimText(x.v) # ""
      scoreOf(c) ==
        IF c.t = "object"
        THEN (IF filled(nameOf(c)) \/ filled(titleOf(c)) THEN 20 ELSE 0)
             + (IF filled(descriptionOf(c)) THEN 8 ELSE 0)
        ELSE IF c.t = "string"
        THEN (IF c.v = NumberedText THEN 30 ELSE 0)
             + (IF c.v \in {"Pear", "sweet", NumberedText} THEN 4 ELSE 0)
        ELSE IF c.t = "array" THEN 6
        ELSE 0
  IN (IF len = cellCount THEN 140 ELSE 0) + Min2(len, cellCount) * 4
     - (IF len = 1 THEN 30 ELSE 0)
     + SumSeq([k \in 1..Min2(6, len) |-> scoreOf(arr[k])])

\* The arrays that walk finds in the reply, in the order of the walk: the
\* array of the reply, then the arrays among its first 8 elements.
candidatesOf(items) ==
  (IF items = <<>> THEN <<>> ELSE <<items>>)
  \o [k \in 1..Cardinality({j \in 1..Min2(8, Len(items)) : items[j].t = "array"}) |->
        LET j == CHOOSE j \in 1..Len(items) :
                   /\ items[j].t = "array"
                   /\ Cardinality({i \in 1..j : items[i].t = "array"}) = k
        IN <<ItemScalar(items[j].p), ItemScalar(items[j].q)>>]

\* candidates.sort(...)[0]: the highest score, then the length nearest to
\* cellCount, then the first found.
chosenOf(candidates, cellCount) ==
  LET better(a, b) ==
        \/ scoreCandidate(a, cellCount) > scoreCandidate(b, cellCount)
        \/ /\ scoreCandidate(a, cellCount) = scoreCandidate(b, cellCount)
           /\ Abs(Len(a) - cellCount) < Abs(Len(b) - cellCount)
      best == CHOOSE k \in 1..Len(candidates) :
                /\ \A j \in 1..Len(candidates) : ~better(candidates[j], candidates[k])
                /\ \A j \in 1..(k - 1) : better(candidates[k], candidates[j])
  IN candidates[best]

\* The strings of the reply in the order collectStrings meets them.
RECURSIVE textBagOf(_)
textBagOf(items) ==
  IF items = <<>> THEN <<>>
  ELSE LET c == Head(items)
           strings(xs) == SelectSeq(xs, LAMBDA x : x.t = "string" /\ trimText(x.v) # "")
       IN (IF c.t = "object" THEN strings(<<c.p, c.q, c.r>>)
           ELSE IF c.t = "array" THEN strings(<<c.p, c.q>>)
           ELSE strings(<<[t |-> c.t, v |-> c.v]>>))
          \o textBagOf(Tail(items))

\* The numbered lines that replace a chosen array of at most 2 elements.
numberedCells(cells, items, cellCount) ==
  LET bag == textBagOf(items)
      enough == {k \in 1..Len(bag) :
                   Len(parseNumberedLinesFromText(bag[k].v)) >= Min2(4, cellCount)}
      lines == parseNumberedLinesFromText(bag[CHOOSE k \in enough : \A j \in enough : k <= j].v)
  IN IF Len(cells) <= 2 /\ enough # {}
     THEN [k \in 1..Len(lines) |-> ItemObject(JsStr(lines[k]), JsStr(""), JsUndef)]
     ELSE cells

\* The { name, description } that normalizeCells makes of one element.
normalizedCell(c) ==
  LET filled(x) == present(x) /\ trimText(x.v) # ""
      name == IF c.t \in {"string", "number"} THEN c.v
              ELSE IF c.t = "array" THEN (IF present(c.p) THEN c.p.v ELSE "")
              ELSE IF c.t = "object"
              THEN (IF filled(c.p) THEN c.p.v ELSE IF filled(c.r) THEN c.r.v ELSE "")
              ELSE ""
      description == IF c.t = "array" THEN (IF present(c.q) THEN c.q.v ELSE "")
                     ELSE IF c.t = "object" /\ filled(c.q) THEN c.q.v
                     ELSE ""
  IN [name |-> JsStr(trimText(name)), description |-> JsStr(trimText(description))]

EmptyCell == [name |-> JsStr(""), description |-> JsStr("")]

\* while (out.length < cellCount) out.push({ name: '', description: '' })
padTo(out, cellCount) ==
  out \o [k \in 1..Max2(0, cellCount - Len(out)) |-> EmptyCell]

\* Mutant: the cells of the reply, neither cut nor padded.
normalizeCellsAsReplied(items, cellCount) ==
  IF candidatesOf(items) = <<>> THEN <<>>
  ELSE LET cells == numberedCells(chosenOf(candidatesOf(items), cellCount), items, cellCount)
       IN <<[k \in 1..Len(cells) |-> normalizedCell(cells[k])]>>

\* normalizeCells(parsed, cellCount, [], []): <<>> for null, <<cells>>
\* otherwise; items is the array of the reply.
normalizeCells(items, cellCount) ==
  IF candidatesOf(items) = <<>> THEN <<>>
  ELSE LET cells == numberedCells(chosenOf(candidatesOf(items), cellCount), items, cellCount)
           cut == sliceTo(cells, cellCount)
       IN <<padTo([k \in 1..Len(cut) |-> normalizedCell(cut[k])], cellCount)>>

Response(status, cells) == [status |-> ToString(status), cells |-> cells]

\* throw new Error('InsufficientFilledCells'): no response yet.
InsufficientFilledCells == [status |-> "thrown", cells |-> <<>>]

\* One attempt of the handler with normalizeCells on the content the model
\* sent: the response, or InsufficientFilledCells.
attempt(reply, cellCount) ==
  IF reply.json = "upstreamError" THEN Response(502, <<>>)
  ELSE IF reply.json \in {"none", "invalid"} THEN Response(502, <<>>)
  ELSE LET normalized == normalizeCells(reply.items, cellCount)
           cells == normalized[1]
           filledNames == Cardinality({k \in 1..Len(cells) : trimText(cells[k].name.v) # ""})
       IN IF normalized = <<>> THEN Response(502, <<>>)
          ELSE IF filledNames < Max2(2, (3 * cellCount + 3) \div 4) THEN InsufficientFilledCells
          ELSE Response(200, cells)

\* The handler of api/generate-cells.js with maxAttempts = 2: replies holds
\* what the model sends at the first and at the second attempt.
handlerNormalizing(body, replies) ==
  LET cellCount == cellCountOf(body)
      first == attempt(replies[1], cellCount)
      second == attempt(replies[2], cellCount)
  IN IF trimText(body.description) = "" THEN Response(400, <<>>)
     ELSE IF first # InsufficientFilledCells THEN first
     ELSE IF second # InsufficientFilledCells THEN second
     ELSE Response(502, <<>>)

\* The array the plain handler takes from the reply: <<>> for none.
plainCellsOf(reply) ==
  IF reply.json = "array" THEN <<reply.items>>
  ELSE IF reply.json = "object" /\ (reply.key = "cells" \/ reply.items # <<>>)
  THEN <<reply.items>>
  ELSE <<>>

\* The plain handler: name.trim() throws a TypeError when name is not a
\* string, and the catch answers 500.
handlerPlain(body, replies) ==
  LET cellCount == cellCountOf(body)
      reply == replies[1]
      found == plainCellsOf(reply)
      cut == sliceTo(found[1], cellCount)
      nameIn(c) ==
        IF falsy([t |-> c.t, v |-> c.v]) THEN JsStr("")
        ELSE LET x == IF present(nameOf(c)) THEN String(nameOf(c)) ELSE titleOf(c)
             IN IF falsy(x) THEN JsStr("") ELSE x
      descriptionIn(c) ==
        IF falsy([t |-> c.t, v |-> c.v]) \/ ~present(descriptionOf(c)) THEN JsStr("")
        ELSE String(descriptionOf(c))
  IN IF trimText(body.description) = "" THEN Response(400, <<>>)
     ELSE IF reply.json = "upstreamError" THEN Response(502, <<>>)
     ELSE IF reply.json \in {"none", "invalid"} THEN Response(502, <<>>)
     ELSE IF found = <<>> THEN Response(502, <<>>)
     ELSE IF \E k \in 1..Len(cut) : nameIn(cut[k]).t # "string" THEN Response(500, <<>>)
     ELSE Response(200,
            padTo([k \in 1..Len(cut) |->
                     [name |-> JsStr(trimText(nameIn(cut[k]).v)),
                      description |-> JsStr(trimText(descriptionIn(cut[k]).v))]],
                  cellCount))

(***************************************************************************)
(* SpecGen: one request to each handler                                    *)
(***************************************************************************)
MaxReply == 17     \* the longest array the model replies with

ReplyLengths == {0, 1, 2, 3, 5, 12, MaxReply}

ReplyItems ==
  {ItemObject(JsStr("Apple"), JsStr("red"), JsUndef),
   ItemObject(JsStr("  "), JsUndef, JsUndef),
   ItemObject(JsUndef, JsUndef, JsStr(" Kiwi ")),
   ItemObject(JsUndef, JsStr("sweet"), JsNum("7")),
   ItemScalar(JsStr("Pear")),
   ItemScalar(JsNum("7")),
   ItemScalar(JsNull),
   ItemScalar(JsStr(NumberedText)),
   ItemPair(JsStr("Fig"), JsStr("sweet"))}

Reply(json, key, items) == [json |-> json, key |-> key, items |-> items]

\* The contents of the model: an array of one kind of element, bare or
\* under a key; three named cells and a blank one; an object without an
\* array; no JSON; no content; an HTTP error.
Replies ==
  {Reply(j[1], j[2], [k \in 1..n |-> c]) :
     j \in {<<"array", "">>, <<"object", "cells">>, <<"object", "data">>},
     n \in ReplyLengths, c \in ReplyItems}
  \cup {Reply("array", "", [k \in 1..4 |->
                              IF k = 2 THEN ItemObject(JsStr("  "), JsUndef, JsUndef)
                              ELSE ItemObject(JsStr("Apple"), JsStr("red"), JsUndef)]),
        Reply("object", "message", <<>>),
        Reply("invalid", "", <<>>),
        Reply("none", "", <<>>),
        Reply("upstreamError", "", <<>>)}

SecondReplies ==
  {Reply("upstreamError", "", <<>>),
   Reply("array", "", [k \in 1..MaxReply |-> ItemObject(JsStr("Apple"), JsStr("red"), JsUndef)])}

CellCounts ==
  {[t |-> "undefined", n |-> 0], [t |-> "string", n |-> 3], [t |-> "fraction", n |-> 2]}
  \cup [t : {"integer"}, n : {0, 1, 2, 5, 100, 101}]

GridSizes == {{}, {0}, {1}, {3}, {4}, {7}}

GenInit ==
  /\ genBody \in [description : {"a fruit stand"}, cellCount : CellCounts, gridSize : GridSizes]
                 \cup {[description |-> "  ", cellCount |-> [t |-> "undefined", n |-> 0],
                        gridSize |-> {}]}
  /\ genReply \in Replies \X SecondReplies
  /\ genDone = FALSE
  /\ genResponse = <<>>
  /\ OthersIdle("gen")

CallHandlerNormalizing ==
  /\ ~genDone
  /\ genDone' = TRUE
  /\ genResponse' = handlerNormalizing(genBody, genReply)
  /\ UNCHANGED <<genBody, genReply>>

CallHandlerPlain ==
  /\ ~genDone
  /\ genDone' = TRUE
  /\ genResponse' = handlerPlain(genBody, genReply)
  /\ UNCHANGED <<genBody, genReply>>

GenNext ==
  \/ CallHandlerNormalizing /\ OthersUnchanged("gen")
  \/ CallHandlerPlain /\ OthersUnchanged("gen")

SpecGen == GenInit /\ [][GenNext]_vars

ArrLattice ==
  LET normalized == toSegments(arrSegs.list, Eps)
      grid == buildAtomicGrid(arrW, arrH, normalized.hs, normalized.vs, Eps)
  IN [atomCells |-> atomCellsFrom(grid.xs, grid.ys, 0, <<>>, Eps),
      hs |-> normalized.hs, vs |-> normalized.vs, xs |-> grid.xs, ys |-> grid.ys, eps |-> Eps]

\* The atomic cells a and b share a side that no segment blocks.
Linked(g, a, b) ==
  \/ /\ a.j = b.j
     /\ Abs(a.i - b.i) = 1
     /\ ~isBlockedByVertical(g.vs, At(g.xs, Max2(a.i, b.i)), At(g.ys, a.j), At(g.ys, a.j + 1),
                             g.eps)
  \/ /\ a.i = b.i
     /\ Abs(a.j - b.j) = 1
     /\ ~isBlockedByHorizontal(g.hs, At(g.ys, Max2(a.j, b.j)), At(g.xs, a.i), At(g.xs, a.i + 1),
                               g.eps)

\* The atomic cells that a chain of links joins to those of S.
RECURSIVE LinkedTo(_, _, _)
LinkedTo(g, all, S) ==
  CHOOSE once \in
    {IF next = S THEN S ELSE LinkedTo(g, all, next) :
       next \in {S \cup {b \in all : \E a \in S : Linked(g, a, b)}}} : TRUE

CellRect(g, a) == rangeToRect(g.xs, g.ys, [minI |-> a.i, maxI |-> a.i, minJ |-> a.j, maxJ |-> a.j])

BoundingRange(C) ==
  [minI |-> CHOOSE m \in {a.i : a \in C} : \A a \in C : m <= a.i,
   maxI |-> CHOOSE m \in {a.i : a \in C} : \A a \in C : m >= a.i,
   minJ |-> CHOOSE m \in {a.j : a \in C} : \A a \in C : m <= a.j,
   maxJ |-> CHOOSE m \in {a.j : a \in C} : \A a \in C : m >= a.j]

\* The component C holds every lattice cell of its bounding range.
FillsRange(C) ==
  LET rr == BoundingRange(C)
  IN \A i \in rr.minI..rr.maxI, j \in rr.minJ..rr.maxJ : \E a \in C : a.i = i /\ a.j = j

\* The rectangles the component is to be emitted as.
EmittedFor(g, C) ==
  IF FillsRange(C) THEN {rangeToRect(g.xs, g.ys, BoundingRange(C))}
  ELSE {CellRect(g, a) : a \in C}

\* C20: the cells returned are, for each connected component of the
\* lattice, its one merged rectangle when the component holds every lattice
\* cell of its (i,j) bounding range and one rectangle per atomic cell
\* otherwise, each once; and no rectangle emitted for a component overlaps
\* a lattice cell of another component.
C20_MergedIffRangeFilled ==
  (CalledFull /\ ~noSegments(arrSegs)) =>
    \A g \in {ArrLattice} :
      \A all \in {{g.atomCells[k] : k \in 1..Len(g.atomCells)}} :
        \A comps \in {{LinkedTo(g, all, {a}) : a \in all}} :
          /\ {arrCells[k] : k \in 1..Len(arrCells)} = UNION {EmittedFor(g, C) : C \in comps}
          /\ Len(arrCells) = Cardinality(UNION {EmittedFor(g, C) : C \in comps})
          /\ \A C \in comps : \A R \in EmittedFor(g, C) : \A a \in all \ C :
               ~CellsOverlap(R, CellRect(g, a))

\* C20 witness: a 2 x 2 px image with the segments (0,1)-(1,1) and
\* (1,0)-(1,1): the corner cell is one component and the other three cells
\* are an L that does not fill its range, so four 1 x 1 cells are returned.
C20_Witness ==
  /\ CalledFull
  /\ arrW = 2 * PX
  /\ arrH = 2 * PX
  /\ {arrSegs.list[k] : k \in 1..Len(arrSegs.list)}
       = {[x1 |-> 0, y1 |-> PX, x2 |-> PX, y2 |-> PX], [x1 |-> PX, y1 |-> 0, x2 |-> PX, y2 |-> PX]}
  /\ Len(arrCells) = 4
  /\ \A k \in 1..4 : arrCells[k].w = PX /\ arrCells[k].h = PX

(***************************************************************************)
(* segmentDetect: the track finder of detectWhiteGaps                      *)
(*                                                                         *)
(* mask is the flat light mask, mask[y * w + x]; a run is [start, end).    *)
(* A horizontal track is [x1, x2, y1, y2, lastY], a vertical one           *)
(* [x1, x2, y1, y2, lastX].  collectVerticalTracks is the code of          *)
(* collectHorizontalTracks with x and y exchanged, so the loop body is     *)
(* written once with the axis as a parameter.                              *)
(***************************************************************************)
RECURSIVE lightRunEnd(_, _)
lightRunEnd(cells, i) ==
  IF i < Len(cells) /\ At(cells, i) = 1 THEN lightRunEnd(cells, i + 1) ELSE i

RECURSIVE findRunsOf(_, _, _, _)
findRunsOf(cells, minLen, i, runs) ==
  IF i >= Len(cells) THEN runs
  ELSE IF At(cells, i) = 1
       THEN CHOOSE once \in
              {findRunsOf(cells, minLen, stop,
                 IF stop - i >= minLen THEN Append(runs, [start |-> i, end |-> stop]) ELSE runs) :
                 stop \in {lightRunEnd(cells, i)}} : TRUE
       ELSE findRunsOf(cells, minLen, i + 1, runs)

findRunsInRow(mask, w, y, minLen) ==
  findRunsOf([x \in 1..w |-> mask[y * w + x]], minLen, 0, <<>>)

findRunsInCol(mask, w, h, x, minLen) ==
  findRunsOf([y \in 1..h |-> mask[(y - 1) * w + x + 1]], minLen, 0, <<>>)

\* The runs of a row come in ascending order, so runs.sort leaves them alone.
RECURSIVE mergeCloseRunsFrom(_, _, _, _)
mergeCloseRunsFrom(runs, maxGap, k, out) ==
  IF k >= Len(runs) THEN out
  ELSE CHOOSE once \in
         {mergeCloseRunsFrom(runs, maxGap, k + 1, next) :
            next \in {LET prev == out[Len(out)]
                          cur == At(runs, k)
                      IN IF cur.start - prev.end <= maxGap
                         THEN [out EXCEPT ![Len(out)] =
                                 [start |-> prev.start, end |-> Max2(prev.end, cur.end)]]
                         ELSE Append(out, cur)}} : TRUE

mergeCloseRuns(runs, maxGap) ==
  IF Len(runs) <= 1 THEN runs ELSE mergeCloseRunsFrom(runs, maxGap, 1, <<runs[1]>>)

trackLast(axis, tr) == IF axis = "h" THEN tr.lastY ELSE tr.lastX
trackLo(axis, tr) == IF axis = "h" THEN tr.x1 ELSE tr.y1
trackHi(axis, tr) == IF axis = "h" THEN tr.x2 ELSE tr.y2

\* Mutant: a run matched earlier in the row is offered again.
runNeverTaken(matched, rr) == FALSE

\* if (matched[rr]) continue;
runTaken(matched, rr) == matched[rr + 1]

\* The for (rr ...) loop: best is [idx, score], the score a rational.
RECURSIVE bestRun(_, _, _, _, _, _)
bestRun(lo, hi, runs, matched, rr, best) ==
  IF rr >= Len(runs) THEN best
  ELSE CHOOSE once \in
         {bestRun(lo, hi, runs, matched, rr + 1, next) :
            next \in {IF runTaken(matched, rr) THEN best
                      ELSE LET run == At(runs, rr)
                               ov == overlapLen(lo, hi, run.start, run.end)
                               union == Max2(hi, run.end) - Min2(lo, run.start)
                               score == IF union > 0 THEN Rat(ov, union) ELSE RInt(0)
                           IN IF ov <= 0 THEN best
                              ELSE IF RLt(best.score, score) THEN [idx |-> rr, score |-> score]
                              ELSE best}} : TRUE

extendTrack(axis, tr, mr, at) ==
  IF axis = "h"
  THEN [tr EXCEPT !.x1 = Min2(tr.x1, mr.start), !.x2 = Max2(tr.x2, mr.end),
                  !.y2 = at + 1, !.lastY = at]
  ELSE [tr EXCEPT !.y1 = Min2(tr.y1, mr.start), !.y2 = Max2(tr.y2, mr.end),
                  !.x2 = at + 1, !.lastX = at]

startTrack(axis, run, at) ==
  IF axis = "h"
  THEN [x1 |-> run.start, x2 |-> run.end, y1 |-> at, y2 |-> at + 1, lastY |-> at]
  ELSE [x1 |-> at, x2 |-> at + 1, y1 |-> run.start, y2 |-> run.end, lastX |-> at]

\* if (y - tr.lastY > opts.maxTrackGapPx) continue;
trackClosed(axis, tr, at, opts) == at - trackLast(axis, tr) > opts.maxTrackGapPx

\* The for (t ...) loop; st is [tracks, matched, picks], picks[t] the bestIdx
\* the track was extended by, or -1.
RECURSIVE matchTracks(_, _, _, _, _, _)
matchTracks(axis, runs, at, opts, t, st) ==
  IF t >= Len(st.tracks) THEN st
  ELSE CHOOSE once \in
         {matchTracks(axis, runs, at, opts, t + 1, next) :
            next \in {LET tr == At(st.tracks, t)
                          skip == [st EXCEPT !.picks = Append(st.picks, -1)]
                      IN IF trackClosed(axis, tr, at, opts) THEN skip
                         ELSE LET best == bestRun(trackLo(axis, tr), trackHi(axis, tr), runs,
                                                  st.matched, 0, [idx |-> -1, score |-> RInt(0)])
                              IN IF best.idx >= 0 /\ RLe(opts.minOverlapRatio, best.score)
                                 THEN [tracks |-> [st.tracks EXCEPT ![t + 1] =
                                                     extendTrack(axis, tr, At(runs, best.idx), at)],
                                       matched |-> [st.matched EXCEPT ![best.idx + 1] = TRUE],
                                       picks |-> Append(st.picks, best.idx)]
                                 ELSE skip}} : TRUE

\* The for (nr ...) loop: the unmatched runs start tracks.
RECURSIVE startTracks(_, _, _, _, _, _)
startTracks(axis, runs, matched, at, nr, tracksNow) ==
  IF nr >= Len(runs) THEN tracksNow
  ELSE startTracks(axis, runs, matched, at, nr + 1,
         IF matched[nr + 1] THEN tracksNow
         ELSE Append(tracksNow, startTrack(axis, At(runs, nr), at)))

trackMinLen(axis, w, h, opts) ==
  Max2(2, floorTimes(IF axis = "h" THEN w ELSE h, opts.minRunFraction))

\* One pass of the for (y ...) loop (for (x ...) in collectVerticalTracks):
\* the tracks after it, with the runs and the picks of the pass.
collectRow(axis, mask, w, h, opts, at, tracksBefore) ==
  LET minLen == trackMinLen(axis, w, h, opts)
      runs == mergeCloseRuns(IF axis = "h" THEN findRunsInRow(mask, w, at, minLen)
                             ELSE findRunsInCol(mask, w, h, at, minLen), opts.mergeGapPx)
      st == matchTracks(axis, runs, at, opts, 0,
              [tracks |-> tracksBefore, matched |-> [k \in 1..Len(runs) |-> FALSE],
               picks |-> <<>>])
  IN [tracks |-> startTracks(axis, runs, st.matched, at, 0, st.tracks),
      runs |-> runs, picks |-> st.picks]

\* The closing loop: the tracks kept, as segments with rational coordinates.
RECURSIVE tracksOut(_, _, _, _, _, _)
tracksOut(axis, tracksNow, minLen, opts, i, out) ==
  IF i >= Len(tracksNow) THEN out
  ELSE LET trk == At(tracksNow, i)
           thickness == IF axis = "h" THEN trk.y2 - trk.y1 ELSE trk.x2 - trk.x1
           len == IF axis = "h" THEN trk.x2 - trk.x1 ELSE trk.y2 - trk.y1
       IN tracksOut(axis, tracksNow, minLen, opts, i + 1,
            IF thickness < opts.minTrackThicknessPx \/ thickness > opts.maxTrackThicknessPx
            THEN out
            ELSE IF len < minLen THEN out
            ELSE IF axis = "h"
                 THEN Append(out, [x1 |-> RInt(trk.x1), y1 |-> Rat(trk.y1 + trk.y2, 2),
                                   x2 |-> RInt(trk.x2), y2 |-> Rat(trk.y1 + trk.y2, 2)])
                 ELSE Append(out, [x1 |-> Rat(trk.x1 + trk.x2, 2), y1 |-> RInt(trk.y1),
                                   x2 |-> Rat(trk.x1 + trk.x2, 2), y2 |-> RInt(trk.y2)]))

(***************************************************************************)
(* SpecTracks: the track finder, one row (column) of the mask at a time    *)
(***************************************************************************)
TrackW == 12      \* length of a mask line in px
TrackH == 3       \* the mask has 1..TrackH lines

\* The light pixels of a line: none, all, two runs 2 px apart, two runs that
\* share the line with a 2 px gap further right, a short run.
TrackLines == {{}, 0..11, (0..1) \cup (4..11), (0..7) \cup (10..11), 2..5}

\* A mask of n lines; the lines are rows for "h" and columns for "v".
TrackMask(axis, lines) ==
  LET n == Len(lines)
      bit(line, k) == IF k \in lines[line] THEN 1 ELSE 0
  IN IF axis = "h"
     THEN [w |-> TrackW, h |-> n,
           bits |-> [i \in 1..(TrackW * n) |-> bit(((i - 1) \div TrackW) + 1, (i - 1) % TrackW)]]
     ELSE [w |-> n, h |-> TrackW,
           bits |-> [i \in 1..(TrackW * n) |-> bit(((i - 1) % n) + 1, (i - 1) \div n)]]

\* trackOpts as detectWhiteGaps builds it: minRunFraction 0.12, the track
\* thickness 1..2 or 2..2, mergeGapPx and maxTrackGapPx at least 1.
TrackOptions ==
  {[minRunFraction |-> Rat(3, 25), minTrackThicknessPx |-> mt, maxTrackThicknessPx |-> 2,
    mergeGapPx |-> mg, maxTrackGapPx |-> tg, minOverlapRatio |-> ratio] :
     mt \in {1, 2}, mg \in {1, 2}, tg \in {1, 2}, ratio \in {Rat(9, 20), Rat(1, 10)}}

TrackInit ==
  /\ trackAxis \in {"h", "v"}
  /\ \E n \in 1..TrackH : \E lines \in [1..n -> TrackLines] :
       trackMask = TrackMask(trackAxis, lines)
  /\ trackOpts \in TrackOptions
  /\ trackAt = 0
  /\ tracks = <<>>
  /\ trackRow = [runs |-> <<>>, picks |-> <<>>]
  /\ trackOut = <<>>
  /\ OthersIdle("track")

TrackLinesToDo == IF trackAxis = "h" THEN trackMask.h ELSE trackMask.w

CollectLine(axis) ==
  /\ trackAxis = axis
  /\ trackOut = <<>>
  /\ trackAt < TrackLinesToDo
  /\ \E row \in {collectRow(axis, trackMask.bits, trackMask.w, trackMask.h, trackOpts,
                            trackAt, tracks)} :
       /\ tracks' = row.tracks
       /\ trackRow' = [runs |-> row.runs, picks |-> row.picks]
  /\ trackAt' = trackAt + 1
  /\ UNCHANGED <<trackMask, trackOpts, trackAxis, trackOut>>

CollectOut(axis) ==
  /\ trackAxis = axis
  /\ trackOut = <<>>
  /\ trackAt = TrackLinesToDo
  /\ trackOut' = <<tracksOut(axis, tracks, trackMinLen(axis, trackMask.w, trackMask.h, trackOpts),
                             trackOpts, 0, <<>>)>>
  /\ UNCHANGED <<trackMask, trackOpts, trackAxis, trackAt, tracks, trackRow>>

\* collectHorizontalTracks(mask, w, h, opts): a row, then the closing loop.
CollectHorizontalRow == CollectLine("h")
CollectHorizontalOut == CollectOut("h")
\* collectVerticalTracks(mask, w, h, opts): a column, then the closing loop.
CollectVerticalColumn == CollectLine("v")
CollectVerticalOut == CollectOut("v")

TrackNext ==
  \/ CollectHorizontalRow /\ OthersUnchanged("track")
  \/ CollectHorizontalOut /\ OthersUnchanged("track")
  \/ CollectVerticalColumn /\ OthersUnchanged("track")
  \/ CollectVerticalOut /\ OthersUnchanged("track")

SpecTracks == TrackInit /\ [][TrackNext]_vars

\* The rows (columns) that passed without a match since the track was last
\* extended, when row (column) at is about to be processed.
MissedLines(tr, at) == at - trackLast(trackAxis, tr) - 1

\* A run of the pass just made that spans exactly the track tr had before
\* the pass, and that no other track overlapped.
HasOwnRun(t) ==
  \E r \in 1..Len(trackRow'.runs) :
    /\ trackRow'.runs[r].start = trackLo(trackAxis, tracks[t])
    /\ trackRow'.runs[r].end = trackHi(trackAxis, tracks[t])
    /\ \A u \in 1..Len(tracks) :
         u # t => overlapLen(trackLo(trackAxis, tracks[u]), trackHi(trackAxis, tracks[u]),
                             trackRow'.runs[r].start, trackRow'.runs[r].end) = 0

\* C21 as stated: in every pass over a row (column), a track that has missed
\* at most maxTrackGapPx rows is extended by a run of that row spanning
\* exactly the track (overlap ratio 1) that no other track overlaps, and a
\* track that has missed more than maxTrackGapPx rows is left as it is.
C21_AsStated ==
  [][trackAt' = trackAt + 1 =>
       \A t \in 1..Len(tracks) :
         /\ (MissedLines(tracks[t], trackAt) <= trackOpts.maxTrackGapPx /\ HasOwnRun(t))
              => trackLast(trackAxis, tracks'[t]) = trackAt
         /\ MissedLines(tracks[t], trackAt) > trackOpts.maxTrackGapPx
              => tracks'[t] = tracks[t]]_vars

\* The overlap / union ratio of a track and a run, 0 when they do not overlap.
OverlapRatio(tr, run) ==
  LET lo == trackLo(trackAxis, tr)
      hi == trackHi(trackAxis, tr)
      ov == Min2(hi, run.end) - Max2(lo, run.start)
  IN IF ov <= 0 THEN RInt(0) ELSE Rat(ov, Max2(hi, run.end) - Min2(lo, run.start))

\* The track is still open when row (column) trackAt is processed.
OpenTrack(tr) == trackAt - trackLast(trackAxis, tr) <= trackOpts.maxTrackGapPx

\* run overlaps tr with a ratio of at least minOverlapRatio.
Matches(tr, run) ==
  /\ RLt(RInt(0), OverlapRatio(tr, run))
  /\ RLe(trackOpts.minOverlapRatio, OverlapRatio(tr, run))

\* The runs (0-based) the tracks before t were extended by in the pass.
TakenBefore(t) == {trackRow'.picks[u] : u \in 1..(t - 1)} \ {-1}

\* What a pass does with the runs once the picks are made: a picked run
\* extends its track to the union of the two spans, no run is picked twice,
\* and the runs not picked start one track each, in order, after the old
\* tracks.
PicksApplied ==
  LET runs == trackRow'.runs
      picks == trackRow'.picks
      unpicked == {r \in 0..(Len(runs) - 1) : \A t \in 1..Len(picks) : picks[t] # r}
  IN /\ Len(picks) = Len(tracks)
     /\ \A t, u \in 1..Len(tracks) : (t # u /\ picks[t] >= 0) => picks[t] # picks[u]
     /\ \A t \in 1..Len(tracks) :
          IF picks[t] < 0 THEN tracks'[t] = tracks[t]
          ELSE /\ trackLo(trackAxis, tracks'[t])
                    = Min2(trackLo(trackAxis, tracks[t]), At(runs, picks[t]).start)
               /\ trackHi(trackAxis, tracks'[t])
                    = Max2(trackHi(trackAxis, tracks[t]), At(runs, picks[t]).end)
               /\ trackLast(trackAxis, tracks'[t]) = trackAt
     /\ Len(tracks') = Len(tracks) + Cardinality(unpicked)
     /\ \A r \in unpicked :
          Cardinality({k \in (Len(tracks) + 1)..Len(tracks') :
                         /\ trackLo(trackAxis, tracks'[k]) = At(runs, r).start
                         /\ trackHi(trackAxis, tracks'[k]) = At(runs, r).end
                         /\ trackLast(trackAxis, tracks'[k]) = trackAt}) = 1

\* C22 as stated: in every pass each open track that has a run overlapping
\* it with a ratio of at least minOverlapRatio is extended by the run of the
\* row with the largest ratio, no other track is extended, no run extends
\* two tracks and every run left over starts exactly one new track.
C22_AsStated ==
  [][trackAt' = trackAt + 1 =>
       /\ PicksApplied
       /\ \A t \in 1..Len(tracks) :
            LET runs == trackRow'.runs
                pick == trackRow'.picks[t]
            IN IF OpenTrack(tracks[t]) /\ \E r \in 1..Len(runs) : Matches(tracks[t], runs[r])
               THEN /\ pick >= 0
                    /\ \A r \in 1..Len(runs) :
                         RLe(OverlapRatio(tracks[t], runs[r]),
                             OverlapRatio(tracks[t], At(runs, pick)))
               ELSE pick = -1]_vars

\* C22, amended: the tracks are served in list order and each open track
\* is extended by the run with the largest ratio among the runs that no
\* earlier track of the list took in this pass, provided that ratio is at
\* least minOverlapRatio; the rest as stated.
C22_GreedyBestFreeRun ==
  [][trackAt' = trackAt + 1 =>
       /\ PicksApplied
       /\ \A t \in 1..Len(tracks) :
            LET runs == trackRow'.runs
                pick == trackRow'.picks[t]
                free == {r \in 0..(Len(runs) - 1) : r \notin TakenBefore(t)}
            IN IF OpenTrack(tracks[t]) /\ \E r \in free : Matches(tracks[t], At(runs, r))
               THEN /\ pick \in free
                    /\ Matches(tracks[t], At(runs, pick))
                    /\ \A r \in free :
                         RLe(OverlapRatio(tracks[t], At(runs, r)),
                             OverlapRatio(tracks[t], At(runs, pick)))
               ELSE pick = -1]_vars

\* C22 witness: the third pass over lines lit on 0..1 and 4..11, then on
\* 0..11, then on 0..7 and 10..11.  The first track (0..12 by then) took the
\* run 0..8, the best run of both tracks, and the second track (4..12) was
\* extended by the run 10..12 that was left.
C22_Witness ==
  /\ trackAt = 3
  /\ trackRow = [runs |-> <<[start |-> 0, end |-> 8], [start |-> 10, end |-> 12]>>,
                 picks |-> <<0, 1>>]
  /\ Len(tracks) = 2
  /\ trackLo(trackAxis, tracks[1]) = 0 /\ trackHi(trackAxis, tracks[1]) = 12
  /\ trackLo(trackAxis, tracks[2]) = 4 /\ trackHi(trackAxis, tracks[2]) = 12
  /\ trackLast(trackAxis, tracks[2]) = 2

(***************************************************************************)
(* segmentDetect.mergeCollinearSegments(segments, orientation, axisEps,    *)
(* gapEps).  A segment is [x1, y1, x2, y2], each a rational.               *)
(***************************************************************************)
segAxis(s, orientation) == IF orientation = "h" THEN s.y1 ELSE s.x1
segStart(s, orientation) ==
  IF orientation = "h" THEN RMin(s.x1, s.x2) ELSE RMin(s.y1, s.y2)
segEnd(s, orientation) ==
  IF orientation = "h" THEN RMax(s.x1, s.x2) ELSE RMax(s.y1, s.y2)

\* var key = Math.round(axis / axisEps);
segKey(s, orientation, axisEps) == RoundRat(RDivInt(segAxis(s, orientation), axisEps))

\* keyed[key]: the segments of one key, in input order.
RECURSIVE keyedList(_, _, _, _, _)
keyedList(segments, orientation, axisEps, key, i) ==
  IF i >= Len(segments) THEN <<>>
  ELSE (IF segKey(At(segments, i), orientation, axisEps) = key THEN <<At(segments, i)>>
        ELSE <<>>) \o keyedList(segments, orientation, axisEps, key, i + 1)

\* list.sort by the start of the span; the sort is stable.
RECURSIVE insertByStart(_, _, _)
insertByStart(sorted, s, orientation) ==
  IF sorted = <<>> THEN <<s>>
  ELSE IF RLe(segStart(Head(sorted), orientation), segStart(s, orientation))
       THEN <<Head(sorted)>> \o insertByStart(Tail(sorted), s, orientation)
       ELSE <<s>> \o sorted

RECURSIVE sortByStart(_, _)
sortByStart(list, orientation) ==
  IF list = <<>> THEN <<>>
  ELSE insertByStart(sortByStart(SubSeq(list, 1, Len(list) - 1), orientation),
                     list[Len(list)], orientation)

\* The for (j ...) loop over one sorted list, and the push after it.
RECURSIVE mergeList(_, _, _, _, _, _)
mergeList(list, orientation, gapEps, j, cur, out) ==
  IF j >= Len(list) THEN Append(out, cur)
  ELSE CHOOSE once \in
         {IF RLe(segStart(nxt, orientation), RAdd(segEnd(cur, orientation), RInt(gapEps)))
          THEN mergeList(list, orientation, gapEps, j + 1,
                 IF orientation = "h"
                 THEN [cur EXCEPT !.x1 = RMin(segStart(cur, orientation), segStart(nxt, orientation)),
                                  !.x2 = RMax(segEnd(cur, orientation), segEnd(nxt, orientation))]
                 ELSE [cur EXCEPT !.y1 = RMin(segStart(cur, orientation), segStart(nxt, orientation)),
                                  !.y2 = RMax(segEnd(cur, orientation), segEnd(nxt, orientation))],
                 out)
          ELSE mergeList(list, orientation, gapEps, j + 1, nxt, Append(out, cur)) :
            nxt \in {At(list, j)}} : TRUE

\* for (var k in keyed): the keys are whole numbers >= 0, which a for-in
\* loop visits in ascending order.
RECURSIVE mergeKeys(_, _, _, _, _, _)
mergeKeys(segments, orientation, axisEps, gapEps, keys, out) ==
  IF keys = <<>> THEN out
  ELSE CHOOSE once \in
         {mergeKeys(segments, orientation, axisEps, gapEps, Tail(keys),
                    mergeList(list, orientation, gapEps, 1, list[1], out)) :
            list \in {sortByStart(keyedList(segments, orientation, axisEps, Head(keys), 0),
                                  orientation)}} : TRUE

mergeCollinearSegments(segments, orientation, axisEps, gapEps) ==
  IF Len(segments) = 0 THEN segments
  ELSE mergeKeys(segments, orientation, axisEps, gapEps,
         SortAsc(SetToSeq({segKey(segments[i], orientation, axisEps) : i \in 1..Len(segments)})),
         <<>>)

(***************************************************************************)
(* SpecCollinear: mergeCollinearSegments on segments of one orientation    *)
(***************************************************************************)
MaxCollinear == 3    \* the list has 0..MaxCollinear segments

\* A segment at cross-axis position axis / 2 spanning lo..hi.
Collinear(orientation, axis, lo, hi) ==
  IF orientation = "h"
  THEN [x1 |-> RInt(lo), y1 |-> Rat(axis, 2), x2 |-> RInt(hi), y2 |-> Rat(axis, 2)]
  ELSE [x1 |-> Rat(axis, 2), y1 |-> RInt(lo), x2 |-> Rat(axis, 2), y2 |-> RInt(hi)]

\* The track finder puts a segment at (y1 + y2) / 2: positions 2.5, 3, 3.5
\* and 9, with spans that overlap, touch, lie 2 px apart or far apart.
CollinearPool(orientation) ==
  {Collinear(orientation, 5, 0, 10), Collinear(orientation, 7, 4, 14),
   Collinear(orientation, 6, 10, 12), Collinear(orientation, 6, 14, 20),
   Collinear(orientation, 5, 30, 40), Collinear(orientation, 18, 0, 10)}

SegInit ==
  /\ \E orientation \in {"h", "v"} :
       /\ segArgs \in {[orientation |-> orientation, axisEps |-> a, gapEps |-> g] :
                         a \in {1, 2}, g \in {0, 2}}
       /\ segIn \in UNION {[1..n -> CollinearPool(orientation)] : n \in 0..MaxCollinear}
  /\ segDone = FALSE
  /\ segOut = <<>>
  /\ OthersIdle("seg")

CallMergeCollinearSegments ==
  /\ ~segDone
  /\ segDone' = TRUE
  /\ segOut' = mergeCollinearSegments(segIn, segArgs.orientation, segArgs.axisEps, segArgs.gapEps)
  /\ UNCHANGED <<segIn, segArgs>>

SegNext == CallMergeCollinearSegments /\ OthersUnchanged("seg")

SpecCollinear == SegInit /\ [][SegNext]_vars

\* Two segments that the claim says are merged: cross-axis positions at most
\* axisEps apart and spans that overlap or lie within gapEps of each other.
Mergeable(a, b) ==
  /\ RLe(RAbs(RSub(segAxis(a, segArgs.orientation), segAxis(b, segArgs.orientation))),
         RInt(segArgs.axisEps))
  /\ RLe(RSub(RMax(segStart(a, segArgs.orientation), segStart(b, segArgs.orientation)),
              RMin(segEnd(a, segArgs.orientation), segEnd(b, segArgs.orientation))),
         RInt(segArgs.gapEps))

\* C23 as stated: the output of mergeCollinearSegments never holds two
\* segments whose cross-axis positions differ by at most axisEps and whose
\* spans overlap or are within gapEps of each other.
C23_AsStated ==
  segDone => \A i, j \in 1..Len(segOut) : i # j => ~Mergeable(segOut[i], segOut[j])

(***************************************************************************)
(* SpecMergeLoop: the while (changed) loop of mergeRects, a round at a     *)
(* time.  rectMerged is the array rects, which the loop changes in place.  *)
(* The loop runs to its end without interruption, hence the fairness.      *)
(***************************************************************************)
MergeInit ==
  /\ rectIn \in UNION {[1..n -> RectPool] : n \in 0..MaxRects}
  /\ rectGap \in RectGapValues
  /\ rectDone = FALSE
  /\ rectMerged = rectIn
  /\ rectOut = <<>>
  /\ OthersIdle("rect")

\* A round that finds a close pair: rects[i] becomes the bounding box,
\* rects[j] is spliced out, changed = true.
MergeRectsRound ==
  /\ ~rectDone
  /\ Len(rectMerged) # 0
  /\ closePairs(rectMerged, rectGap) # {}
  /\ \E p \in {firstClosePair(rectMerged, rectGap)} :
       rectMerged' = mergePair(rectMerged, p[1], p[2])
  /\ UNCHANGED <<rectIn, rectGap, rectDone, rectOut>>

\* if (!rects.length) return rects, or a round that finds no close pair:
\* changed stays false and rects is returned.
MergeRectsReturn ==
  /\ ~rectDone
  /\ Len(rectMerged) = 0 \/ closePairs(rectMerged, rectGap) = {}
  /\ rectDone' = TRUE
  /\ UNCHANGED <<rectIn, rectGap, rectMerged, rectOut>>

MergeNext ==
  \/ MergeRectsRound /\ OthersUnchanged("rect")
  \/ MergeRectsReturn /\ OthersUnchanged("rect")

SpecMergeLoop == MergeInit /\ [][MergeNext]_vars /\ WF_vars(MergeNext)

\* No two rectangles of the list overlap or lie within gapPx of each other
\* on both axes.
NoClosePair(rects, gapPx) ==
  \A i, j \in 1..Len(rects) :
    i # j => \/ Min2(rects[i].x + rects[i].w, rects[j].x + rects[j].w)
                  - Max2(rects[i].x, rects[j].x) < -gapPx
             \/ Min2(rects[i].y + rects[i].h, rects[j].y + rects[j].h)
                  - Max2(rects[i].y, rects[j].y) < -gapPx

\* C24: mergeRects returns, and what it returns is a fixed point (no two
\* rectangles overlap or lie within gapPx of each other on both axes) in
\* which every input rectangle lies inside some output rectangle.
C24_ReturnsFixedPointCovering ==
  <>[](/\ rectDone
       /\ NoClosePair(rectMerged, rectGap)
       /\ \A i \in 1..Len(rectIn) : \E j \in 1..Len(rectMerged) : Inside(rectIn[i], rectMerged[j]))

\* C24 witness: two rectangles 7 px apart and a third that bridges them;
\* merging the first with the bridge brings the second within reach, and one
\* rectangle is returned after two rounds.
C24_Witness ==
  /\ rectDone
  /\ rectIn = <<Rect(0, 6, 2, 2), Rect(9, 9, 1, 1), Rect(2, 8, 7, 1)>>
  /\ rectGap = 0
  /\ rectMerged = <<Rect(0, 6, 10, 4)>>

(***************************************************************************)
(* segmentDetect.detectPanelRects and detectForegroundRectsOnDarkBg        *)
(*                                                                         *)
(* Both flood-fill a mask, keep the components that are large enough, pad  *)
(* their bounding boxes, merge, drop the contained ones and sort.  A mask  *)
(* is the set of its pixels <<x, y>>.                                      *)
(***************************************************************************)
\* minX, minY, maxX, maxY and area of a component.
componentBox(c) ==
  [minX |-> CHOOSE v \in {p[1] : p \in c} : \A p \in c : v <= p[1],
   maxX |-> CHOOSE v \in {p[1] : p \in c} : \A p \in c : v >= p[1],
   minY |-> CHOOSE v \in {p[2] : p \in c} : \A p \in c : v <= p[2],
   maxY |-> CHOOSE v \in {p[2] : p \in c} : \A p \in c : v >= p[2],
   area |-> Cardinality(c)]

\* Mutant: the padded box is not cut at the right and bottom edges.
paddedRectUncut(box, pad, w, h) ==
  [x |-> Max2(0, box.minX - pad),
   y |-> Max2(0, box.minY - pad),
   w |-> (box.maxX + 1 + pad) - Max2(0, box.minX - pad),
   h |-> (box.maxY + 1 + pad) - Max2(0, box.minY - pad)]

\* rects.push({x: rx, y: ry, w: rx2 - rx, h: ry2 - ry})
paddedRect(box, pad, w, h) ==
  [x |-> Max2(0, box.minX - pad),
   y |-> Max2(0, box.minY - pad),
   w |-> Min2(w, box.maxX + 1 + pad) - Max2(0, box.minX - pad),
   h |-> Min2(h, box.maxY + 1 + pad) - Max2(0, box.minY - pad)]

\* The scan of the mask: one padded rectangle per component the size tests
\* keep, in scan order.  minFill is <<0, 1>> where there is no fill test.
RECURSIVE scanRects(_, _, _, _, _, _)
scanRects(comps, k, w, h, lim, rects) ==
  IF k > Len(comps) THEN rects
  ELSE CHOOSE once \in
         {scanRects(comps, k + 1, w, h, lim,
            IF box.maxX - box.minX + 1 < lim.minW \/ box.maxY - box.minY + 1 < lim.minH
               \/ box.area < lim.minArea
            THEN rects
            ELSE IF RLt(Rat(box.area, (box.maxX - box.minX + 1) * (box.maxY - box.minY + 1)),
                        lim.minFill)
            THEN rects
            ELSE Append(rects, paddedRect(box, lim.pad, w, h))) :
            box \in {componentBox(comps[k])}} : TRUE

\* mergeRects, removeContainedRects and the sort that end each detector.
finishRects(rects, mergeGap) ==
  CHOOSE once \in
    {sortRects(kept) :
       kept \in {removeContainedRects(merged) : merged \in {mergeRects(rects, mergeGap)}}} : TRUE

maskRects(mask, w, h, lim, mergeGap) ==
  CHOOSE once \in
    {finishRects(rects, mergeGap) :
       rects \in {scanRects(comps, 1, w, h, lim, <<>>) :
                    comps \in {shapeComponents(mask, mask)}}} : TRUE

\* The options other than padPx and mergeGapPx are absent.
detectForegroundRectsOnDarkBg(image, options, canvasOk) ==
  LET darkBgThreshold == 80
      w == image.w
      h == image.h
  IN IF w = 0 \/ h = 0 \/ ~canvasOk THEN <<>>
     ELSE maskRects({p \in (0..(w - 1)) \X (0..(h - 1)) :
                       pixelLuminanceOverWhite(image, p[1], p[2]) > darkBgThreshold},
                    w, h,
                    [minArea |-> Max2(20, floorTimes(w * h, Rat(8, 1000))),
                     minW |-> Max2(8, floorTimes(w, Rat(5, 100))),
                     minH |-> Max2(8, floorTimes(h, Rat(5, 100))),
                     minFill |-> RInt(0),
                     pad |-> Max2(0, parseIntOr(options.padPx, 1))],
                    Max2(0, parseIntOr(options.mergeGapPx, 2)))

detectPanelRects(image, options, canvasOk) ==
  LET nonWhiteThreshold == 245
      w == image.w
      h == image.h
  IN IF w = 0 \/ h = 0 \/ ~canvasOk THEN <<>>
     ELSE maskRects({p \in (0..(w - 1)) \X (0..(h - 1)) :
                       pixelLuminanceOverWhite(image, p[1], p[2]) <= nonWhiteThreshold},
                    w, h,
                    [minArea |-> Max2(20, floorTimes(w * h, Rat(15, 1000))),
                     minW |-> Max2(8, floorTimes(w, Rat(9, 100))),
                     minH |-> Max2(8, floorTimes(h, Rat(9, 100))),
                     minFill |-> Rat(2, 10),
                     pad |-> Max2(0, parseIntOr(options.padPx, 1))],
                    Max2(0, parseIntOr(options.mergeGapPx, 2)))

(***************************************************************************)
(* SpecDetectors: one call of one of the three rectangle detectors         *)
(***************************************************************************)
DetW == 22        \* image width in px
DetH == 20        \* image height in px

\* Three blocks that stay apart, a small one, a thin frame and two blocks
\* that touch the left and right edges.
DetShapes ==
  {{}, {Rect(13, 0, 8, 8)}, {Rect(13, 0, 8, 8), Rect(0, 1, 8, 8)},
   {Rect(13, 0, 8, 8), Rect(0, 1, 8, 8), Rect(2, 12, 8, 8)},
   {Rect(0, 0, 3, 3)}, {Rect(0, 0, 8, 20), Rect(14, 0, 8, 20)},
   {Rect(0, 0, 22, 1), Rect(0, 0, 1, 20), Rect(0, 19, 22, 1), Rect(21, 0, 1, 20)},
   {Rect(0, 0, 22, 20)}}

\* The shapes light on black, and dark on white.
DetImages ==
  {[w |-> DetW, h |-> DetH, light |-> shapes, dark |-> {}] : shapes \in DetShapes}
  \cup {[w |-> DetW, h |-> DetH, light |-> {Rect(0, 0, DetW, DetH)}, dark |-> shapes] :
          shapes \in DetShapes}
  \cup {[w |-> 0, h |-> DetH, light |-> {}, dark |-> {}]}

DetOptions ==
  {[padPx |-> pad, mergeGapPx |-> mg, maxThicknessPx |-> {}, canvasOk |-> TRUE] :
      pad \in {{}, {-1}, {0}, {2}, {30}}, mg \in {{}, {-1}, {4}}}
  \cup {[padPx |-> {}, mergeGapPx |-> {}, maxThicknessPx |-> {}, canvasOk |-> FALSE]}

DetInit ==
  /\ detImage \in DetImages
  /\ detOpts \in DetOptions
  /\ detCall = ""
  /\ detRects = <<>>
  /\ OthersIdle("det")

CallDetectPanelRects ==
  /\ detCall = ""
  /\ detCall' = "detectPanelRects"
  /\ detRects' = detectPanelRects(detImage, detOpts, detOpts.canvasOk)
  /\ UNCHANGED <<detImage, detOpts>>

CallDetectForegroundRectsOnDarkBg ==
  /\ detCall = ""
  /\ detCall' = "detectForegroundRectsOnDarkBg"
  /\ detRects' = detectForegroundRectsOnDarkBg(detImage, detOpts, detOpts.canvasOk)
  /\ UNCHANGED <<detImage, detOpts>>

CallDetectIsolatedShapesOnBlackBg ==
  /\ detCall = ""
  /\ detCall' = "detectIsolatedShapesOnBlackBg"
  /\ detRects' = detectIsolatedShapesOnBlackBg(detImage, detOpts, detOpts.canvasOk)
  /\ UNCHANGED <<detImage, detOpts>>

DetNext ==
  \/ CallDetectPanelRects /\ OthersUnchanged("det")
  \/ CallDetectForegroundRectsOnDarkBg /\ OthersUnchanged("det")
  \/ CallDetectIsolatedShapesOnBlackBg /\ OthersUnchanged("det")

SpecDetectors == DetInit /\ [][DetNext]_vars

\* C25: every rectangle a detector returns has w > 0 and h > 0 and lies
\* inside [0, W] x [0, H], and the list is sorted by y, then by x.
C25_InsideImageAndSorted ==
  detCall # "" =>
    /\ \A k \in 1..Len(detRects) :
         /\ detRects[k].w > 0 /\ detRects[k].h > 0
         /\ detRects[k].x >= 0 /\ detRects[k].y >= 0
         /\ detRects[k].x + detRects[k].w <= detImage.w
         /\ detRects[k].y + detRects[k].h <= detImage.h
    /\ \A k \in 1..(Len(detRects) - 1) :
         \/ detRects[k].y < detRects[k + 1].y
         \/ detRects[k].y = detRects[k + 1].y /\ detRects[k].x <= detRects[k + 1].x

\* C25 witness: three light blocks on black, padded by 1 px and not merged.
\* The scan meets the block at (13, 0) before the one at (0, 1); both are
\* padded to y = 0 and the sort puts the left one first.
C25_Witness ==
  /\ detCall = "detectForegroundRectsOnDarkBg"
  /\ detOpts.padPx = {}
  /\ detOpts.mergeGapPx = {-1}
  /\ detRects = <<Rect(0, 0, 9, 10), Rect(12, 0, 10, 9), Rect(1, 11, 10, 9)>>

(***************************************************************************)
(* SpecLines: findRuns on a profile, then mergeCloseLines on its runs, as  *)
(* detectGridLines chains them.  maxRunLength absent is Infinity, which    *)
(* no run of the profile exceeds, like the length of the profile.          *)
(***************************************************************************)
MaxProfile == 6      \* the profile has 0..MaxProfile entries

\* Below, at and above the threshold of 1/2.
ProfileValues == {RInt(0), Rat(1, 2), RInt(1)}

LineInit ==
  /\ lineProfile \in UNION {[1..n -> ProfileValues] : n \in 0..MaxProfile}
  /\ lineArgs \in {[threshold |-> Rat(1, 2), minRunLength |-> lo, maxRunLength |-> hi,
                    minGap |-> gap] : lo \in {1, 2}, hi \in {{}, {2}, {3}}, gap \in {2, 3}}
  /\ lineCall = ""
  /\ lineRuns = <<>>
  /\ lineMerged = <<>>
  /\ OthersIdle("line")

CallFindRuns ==
  /\ lineCall = ""
  /\ lineCall' = "findRuns"
  /\ lineRuns' = findRuns(lineProfile, lineArgs.threshold, lineArgs.minRunLength,
                          IF lineArgs.maxRunLength = {} THEN Len(lineProfile)
                          ELSE CHOOSE n \in lineArgs.maxRunLength : TRUE)
  /\ UNCHANGED <<lineProfile, lineArgs, lineMerged>>

CallMergeCloseLines ==
  /\ lineCall = "findRuns"
  /\ lineCall' = "mergeCloseLines"
  /\ lineMerged' = mergeCloseLines(lineRuns, lineArgs.minGap)
  /\ UNCHANGED <<lineProfile, lineArgs, lineRuns>>

LineNext ==
  \/ CallFindRuns /\ OthersUnchanged("line")
  \/ CallMergeCloseLines /\ OthersUnchanged("line")

SpecLines == LineInit /\ [][LineNext]_vars

\* The profile is at or above the threshold at index i (0-based).
AtOrAbove(i) == RLe(lineArgs.threshold, lineProfile[i + 1])

\* The maximal runs <<start, end>> (end exclusive) of indices at or above
\* the threshold whose length is within [minRunLength, maxRunLength].
RunsWithinLimits ==
  {r \in (0..Len(lineProfile)) \X (0..Len(lineProfile)) :
     /\ r[1] < r[2]
     /\ \A i \in r[1]..(r[2] - 1) : AtOrAbove(i)
     /\ r[1] = 0 \/ ~AtOrAbove(r[1] - 1)
     /\ r[2] = Len(lineProfile) \/ ~AtOrAbove(r[2])
     /\ r[2] - r[1] >= lineArgs.minRunLength
     /\ \A hi \in lineArgs.maxRunLength : r[2] - r[1] <= hi}

\* C26: findRuns returns, in ascending order, one entry for each maximal run
\* whose length is within the limits and nothing else, each with thickness
\* = the length of the run and position = start + thickness / 2.
C26_ExactlyTheRunsWithinLimits ==
  lineCall # "" =>
    /\ Len(lineRuns) = Cardinality(RunsWithinLimits)
    /\ \A k \in 1..Len(lineRuns) :
         \E r \in RunsWithinLimits :
           lineRuns[k] = [position |-> Rat(2 * r[1] + (r[2] - r[1]), 2), thickness |-> r[2] - r[1]]
    /\ \A k \in 1..(Len(lineRuns) - 1) : RLt(lineRuns[k].position, lineRuns[k + 1].position)

\* C26 witness: the profile 1, 0, 1, 1, 1, 1/2 with lengths 1..2 allowed.
\* The run of length 1 is reported at 0.5 and the run of length 4, too long,
\* is dropped whole.
C26_Witness ==
  /\ lineCall = "findRuns"
  /\ lineProfile = <<RInt(1), RInt(0), RInt(1), RInt(1), RInt(1), Rat(1, 2)>>
  /\ lineArgs.minRunLength = 1
  /\ lineArgs.maxRunLength = {2}
  /\ lineRuns = <<[position |-> Rat(1, 2), thickness |-> 1]>>

\* Line k of the runs is closer than minGap to line k - 1 of the runs.
CloseInRuns(k) ==
  RLt(RSub(lineRuns[k].position, lineRuns[k - 1].position), RInt(lineArgs.minGap))

\* C27: on lines sorted by position, mergeCloseLines leaves any two
\* consecutive lines of the result at least minGap apart and in ascending
\* order; a line closer than minGap to its predecessor is merged into it at
\* the thickness-weighted mean position with the larger thickness, and
\* lines that are all far enough apart are returned as they are.
C27_MergedLinesMinGapApart ==
  lineCall = "mergeCloseLines" =>
    /\ \A k \in 2..Len(lineMerged) :
         RLe(RInt(lineArgs.minGap), RSub(lineMerged[k].position, lineMerged[k - 1].position))
    /\ Len(lineMerged) <= Len(lineRuns)
    /\ (\A k \in 2..Len(lineRuns) : ~CloseInRuns(k)) => lineMerged = lineRuns
    /\ (Len(lineRuns) >= 2 /\ CloseInRuns(2)) =>
         /\ RLe(lineRuns[1].position, lineMerged[1].position)
         /\ RLe(lineMerged[1].position, lineRuns[2].position)
    /\ (Len(lineRuns) = 2 /\ CloseInRuns(2)) =>
         /\ Len(lineMerged) = 1
         /\ lineMerged[1].thickness = Max2(lineRuns[1].thickness, lineRuns[2].thickness)
         /\ RMulInt(lineMerged[1].position, lineRuns[1].thickness + lineRuns[2].thickness)
              = RAdd(RMulInt(lineRuns[1].position, lineRuns[1].thickness),
                     RMulInt(lineRuns[2].position, lineRuns[2].thickness))

\* C27 witness: runs at 1 (thickness 2), 3.5 and 5.5 with minGap 3.  The
\* second is merged into the first at 11/6; the third, 2 from the second
\* run but more than 3 from the merged line, stays a line of its own.
C27_Witness ==
  /\ lineCall = "mergeCloseLines"
  /\ lineArgs.minGap = 3
  /\ Len(lineRuns) = 3
  /\ lineRuns[1] = [position |-> RInt(1), thickness |-> 2]
  /\ CloseInRuns(2) /\ CloseInRuns(3)
  /\ Len(lineMerged) = 2
  /\ lineMerged[1] = [position |-> Rat(11, 6), thickness |-> 2]
  /\ lineMerged[2] = lineRuns[3]

(***************************************************************************)
(* The padding of pickNLines, described without its loop (SpecPick)        *)
(***************************************************************************)
\* The positions with 0 and size as the end points.
WithEnds(s, size) == <<RInt(0)>> \o s \o <<size>>

\* Neighbours k and k + 1 of WithEnds(s, size) bound a largest gap.
IsLargestGap(s, size, k) ==
  LET ends == WithEnds(s, size)
  IN \A j \in 1..(Len(ends) - 1) :
       RLe(RSub(ends[j + 1], ends[j]), RSub(ends[k + 1], ends[k]))

\* s with the midpoint of its k-th gap put between the two neighbours.
WithMidpoint(s, size, k) ==
  LET ends == WithEnds(s, size)
  IN SubSeq(s, 1, k - 1) \o <<Rat(ends[k][1] * ends[k + 1][2] + ends[k + 1][1] * ends[k][2],
                                 2 * ends[k][2] * ends[k + 1][2])>>
       \o SubSeq(s, k, Len(s))

\* t is s after some additions, each the midpoint of a largest gap of the
\* positions present at the moment it is added.
RECURSIVE PaddedByLargestGaps(_, _, _)
PaddedByLargestGaps(s, t, size) ==
  IF Len(s) >= Len(t) THEN s = t
  ELSE \E k \in 1..(Len(s) + 1) :
         /\ IsLargestGap(s, size, k)
         /\ PaddedByLargestGaps(WithMidpoint(s, size, k), t, size)

\* C28: with m candidates, 1 <= m < K, the result of pickNLines contains
\* all m candidate positions, and each of the K - m added positions is the
\* midpoint of the largest gap between neighbouring positions (0 and size
\* being the end points) at the moment it is added.
C28_PaddedAtLargestGaps ==
  (pickDone /\ 1 <= Len(pickLines) /\ Len(pickLines) < pickCount) =>
    /\ Len(picked) = pickCount
    /\ \A c \in 1..Len(pickLines) :
         Occurrences(PickCandidates[c], picked) >= Occurrences(PickCandidates[c], PickCandidates)
    /\ PaddedByLargestGaps(RSortAsc(PickCandidates), picked, pickSize)

\* C28 witness: the candidate 10 in 0..100 padded to three lines: 55 first,
\* the middle of 10..100, then 32.5, the middle of 10..55, the first of the
\* two gaps of 45.
C28_Witness ==
  /\ pickDone
  /\ pickSize = RInt(100)
  /\ pickCount = 3
  /\ PickCandidates = <<RInt(10)>>
  /\ picked = <<RInt(10), Rat(65, 2), RInt(55)>>

(***************************************************************************)
(* api/generate-cells.js: the handler as the steps between its awaits.     *)
(* What the OpenAI call does at an attempt is an outcome:                  *)
(*   abort          fetch rejects with AbortError (the timeout fired)      *)
(*   fetchFailed    fetch rejects with TypeError 'fetch failed'            *)
(*   status         a reply with response.ok false                         *)
(*   statusNoBody   the same, and reading its text fails                   *)
(*   bodyNotJson    response.json() throws a SyntaxError                   *)
(*   noContent      no choices[0].message.content                          *)
(*   contentNotJson JSON.parse(content) throws                             *)
(*   noCells        normalizeCells finds no cells                          *)
(*   cells          cells, filledNames of them with a name                 *)
(***************************************************************************)
maxAttempts == 2

MaxCells == 4      \* cellCount is at most MaxCells

JsError(name, message) == [name |-> name, message |-> message]

NoError == JsError("", "")

\* /fetch failed/i.test(message), on the messages that occur
fetchFailedIn(message) == message \in {"fetch failed", "Fetch failed"}

\* Math.max(2, Math.ceil(cellCount * 0.75))
minFilledNames(cellCount) == Max2(2, (3 * cellCount + 3) \div 4)

AttemptSent(status) == [thrown |-> FALSE, status |-> status, err |-> NoError]
AttemptThrown(err) == [thrown |-> TRUE, status |-> 0, err |-> err]

\* The body of the try block of one attempt: the response it returns, or
\* the error it throws.
tryAttempt(outcome, cellCount) ==
  IF outcome.kind = "abort" THEN AttemptThrown(JsError("AbortError", "This operation was aborted"))
  ELSE IF outcome.kind = "fetchFailed" THEN AttemptThrown(JsError("TypeError", "fetch failed"))
  ELSE IF outcome.kind = "statusNoBody" THEN AttemptThrown(JsError("TypeError", "terminated"))
  ELSE IF outcome.kind = "status"
  THEN AttemptSent(IF outcome.status >= 500 THEN 502 ELSE outcome.status)
  ELSE IF outcome.kind = "bodyNotJson" THEN AttemptThrown(JsError("SyntaxError", "Unexpected token"))
  ELSE IF outcome.kind \in {"noContent", "contentNotJson", "noCells"} THEN AttemptSent(502)
  ELSE IF outcome.filledNames < minFilledNames(cellCount)
  THEN AttemptThrown(JsError("Error", "InsufficientFilledCells"))
  ELSE AttemptSent(200)

\* Mutant: every error is followed by another attempt.
retryableAlways(err) == TRUE

\* The errors after which the catch block does not break.
retryable(err) ==
  \/ err.name = "AbortError"
  \/ err.name = "TypeError" /\ fetchFailedIn(err.message)
  \/ err.message = "InsufficientFilledCells"

\* The status of the response after the loop.
finalStatus(err) ==
  IF err.name = "AbortError" THEN 503
  ELSE IF err.name = "TypeError" /\ fetchFailedIn(err.message) THEN 502
  ELSE IF err.message = "InsufficientFilledCells" THEN 502
  ELSE 500

AttOutcomes(cellCount) ==
  [kind : {"abort", "fetchFailed", "statusNoBody", "bodyNotJson", "noContent",
           "contentNotJson", "noCells"}, status : {0}, filledNames : {0}]
  \cup [kind : {"status"}, status : {401, 429, 500}, filledNames : {0}]
  \cup [kind : {"cells"}, status : {200}, filledNames : 0..cellCount]

AttInit ==
  /\ attReq \in [method : {"OPTIONS", "GET", "POST"}, hasKey : BOOLEAN,
                 body : {"json", "invalid"}, description : {"a fruit stand", "  "},
                 cellCount : 1..MaxCells]
  /\ attPc = "entry"
  /\ attAttempt = 0
  /\ attTried = <<>>
  /\ attLastErr = NoError
  /\ attSent = <<>>
  /\ OthersIdle("att")

\* From the entry of the handler to the fetch of the first attempt (the
\* DNS lookup and the probe are caught and send nothing).
HandlerEntry ==
  /\ attPc = "entry"
  /\ LET early == IF attReq.method = "OPTIONS" THEN <<204>>
                  ELSE IF attReq.method # "POST" THEN <<405>>
                  ELSE IF ~attReq.hasKey THEN <<500>>
                  ELSE IF attReq.body = "invalid" THEN <<400>>
                  ELSE IF trimText(attReq.description) = "" THEN <<400>>
                  ELSE <<>>
     IN /\ attSent' = early
        /\ attPc' = IF early = <<>> THEN "fetch" ELSE "returned"
        /\ attAttempt' = IF early = <<>> THEN 1 ELSE attAttempt
  /\ UNCHANGED <<attReq, attTried, attLastErr>>

\* From the settling of the fetch of one attempt to the next fetch or to
\* the response: the rest of the try block, the catch block and, when the
\* loop is left, the final error response.
AttemptSettles ==
  /\ attPc = "fetch"
  /\ \E outcome \in AttOutcomes(attReq.cellCount) :
       LET got == tryAttempt(outcome, attReq.cellCount)
           again == got.thrown /\ retryable(got.err) /\ attAttempt # maxAttempts
       IN /\ attTried' = Append(attTried, outcome)
          /\ attLastErr' = IF got.thrown THEN got.err ELSE attLastErr
          /\ attAttempt' = IF again THEN attAttempt + 1 ELSE attAttempt
          /\ attPc' = IF again THEN "fetch" ELSE "returned"
          /\ attSent' = IF again THEN attSent
                        ELSE IF got.thrown THEN Append(attSent, finalStatus(got.err))
                        ELSE Append(attSent, got.status)
  /\ UNCHANGED attReq

AttNext ==
  \/ HandlerEntry /\ OthersUnchanged("att")
  \/ AttemptSettles /\ OthersUnchanged("att")

\* Every fetch settles: the timeout aborts one that does not answer.
SpecAttempts == AttInit /\ [][AttNext]_vars /\ WF_vars(AttNext)

\* The outcomes the claim lets a second attempt follow.
FailedRetryably(outcome) ==
  \/ outcome.kind \in {"abort", "fetchFailed"}
  \/ outcome.kind = "cells" /\ outcome.filledNames < minFilledNames(attReq.cellCount)

\* An HTTP error status or a reply that cannot be parsed.
ErrorOrUnparsable(outcome) ==
  outcome.kind \in {"status", "statusNoBody", "bodyNotJson", "contentNotJson"}

AttemptsWithinLimits ==
  /\ Len(attTried) <= 2
  /\ Len(attTried) >= 2 => FailedRetryably(attTried[1])
  /\ \A k \in 1..Len(attTried) :
       ErrorOrUnparsable(attTried[k]) =>
         k = Len(attTried) /\ attPc = "returned" /\ Len(attSent) = 1
  /\ Len(attSent) = (IF attPc = "returned" THEN 1 ELSE 0)

MaxCallers == 2      \* calls of the exported functions

AuthFunctions ==
  {"login", "signup", "logout", "getUser", "getToken", "isAuthenticated",
   "handleRedirectCallback"}

NoPromise == 0

Promise(state, stage, reason) == [state |-> state, stage |-> stage, reason |-> reason]

\* A new promise becomes the value of clientPromise.
assignClientPromise(st, p) ==
  [st EXCEPT !.promises = Append(@, p), !.clientPromise = Len(st.promises) + 1]

getConfig(window, st) ==
  IF st.configPromise.state # "null" THEN st
  ELSE IF window = "valid"
  THEN [st EXCEPT !.configPromise = [state |-> "fulfilled", value |-> "valid"]]
  ELSE [st EXCEPT !.configPromise = [state |-> "pending", value |-> ""],
                  !.fetches = @ + 1]

\* What getClient does when it finds no clientPromise.
createClientPromise(env, st) ==
  IF env.variant = "api"
  THEN assignClientPromise(getConfig(env.window, st), Promise("pending", "config", ""))
  ELSE IF env.window = "none"
  THEN assignClientPromise(st, Promise("rejected", "settled", "Auth0 config missing"))
  ELSE assignClientPromise([st EXCEPT !.creations = @ + 1], Promise("pending", "create", ""))

\* Mutant: getClient without the test of clientPromise.
getClientAnew(env, st) == createClientPromise(env, st)

getClient(env, st) ==
  IF st.clientPromise # NoPromise THEN st ELSE createClientPromise(env, st)

\* getConfig().then(function (config) { ... }) run for promise p once the
\* configuration promise has settled.
thenConfig(st, p) ==
  IF st.configPromise.state = "rejected"
  THEN [st EXCEPT !.promises[p] = Promise("rejected", "settled", st.configPromise.value)]
  ELSE IF st.configPromise.value # "valid"
  THEN [st EXCEPT !.promises[p] = Promise("rejected", "settled", "Auth0 config missing")]
  ELSE [st EXCEPT !.promises[p] = Promise("pending", "create", ""), !.creations = @ + 1]

AuthInit ==
  /\ authEnv \in [variant : {"api", "window"}, window : {"valid", "placeholder", "none"}]
  /\ authState = [loaded |-> FALSE,
                  configPromise |-> [state |-> "null", value |-> ""],
                  clientPromise |-> NoPromise,
                  promises |-> <<>>,
                  fetches |-> 0,
                  creations |-> 0]
  /\ authCalls = <<>>
  /\ OthersIdle("auth")

\* const ready = getClient().catch(...); window.auth0Api = {...}
LoadModule ==
  /\ ~authState.loaded
  /\ authState' = [getClient(authEnv, authState) EXCEPT !.loaded = TRUE]
  /\ UNCHANGED <<authEnv, authCalls>>

\* One of the exported functions up to its await getClient().
CallAuthFunction ==
  /\ authState.loaded
  /\ Len(authCalls) < MaxCallers
  /\ \E fn \in AuthFunctions :
       LET st == getClient(authEnv, authState)
       IN /\ authState' = st
          /\ authCalls' = Append(authCalls, [fn |-> fn, pc |-> "await",
                                             promise |-> st.clientPromise, reason |-> ""])
  /\ UNCHANGED authEnv

\* fetch('/api/auth-config') and r.json() settle; a configuration that
\* arrived is stored in window.__auth0Config.
FetchSettles ==
  /\ authState.configPromise.state = "pending"
  /\ \E got \in {"valid", "none", "fetch failed", "not JSON"} :
       IF got \in {"valid", "none"}
       THEN /\ authState' = [authState EXCEPT !.configPromise = [state |-> "fulfilled", value |-> got]]
            /\ authEnv' = [authEnv EXCEPT !.window = got]
       ELSE /\ authState' = [authState EXCEPT !.configPromise = [state |-> "rejected", value |-> got]]
            /\ UNCHANGED authEnv
  /\ UNCHANGED authCalls

\* The callback chained on the settled configuration promise runs.
ConfigDelivered ==
  /\ authState.configPromise.state \in {"fulfilled", "rejected"}
  /\ \E p \in 1..Len(authState.promises) :
       /\ authState.promises[p].stage = "config"
       /\ authState' = thenConfig(authState, p)
  /\ UNCHANGED <<authEnv, authCalls>>

\* createAuth0Client settles.
CreateSettles ==
  /\ \E p \in 1..Len(authState.promises) :
       /\ authState.promises[p].stage = "create"
       /\ \E ok \in BOOLEAN :
            authState' = [authState EXCEPT !.promises[p] =
                            IF ok THEN Promise("fulfilled", "settled", "")
                            ELSE Promise("rejected", "settled", "createAuth0Client failed")]
  /\ UNCHANGED <<authEnv, authCalls>>

\* A caller goes on after its await: with the client, or throwing the
\* reason of the rejection.
CallerResumes ==
  /\ \E c \in 1..Len(authCalls) :
       LET p == authState.promises[authCalls[c].promise]
       IN /\ authCalls[c].pc = "await"
          /\ p.state # "pending"
          /\ authCalls' = [authCalls EXCEPT ![c].pc = IF p.state = "fulfilled" THEN "client" ELSE "threw",
                                            ![c].reason = p.reason]
  /\ UNCHANGED <<authEnv, authState>>

AuthNext ==
  \/ LoadModule /\ OthersUnchanged("auth")
  \/ CallAuthFunction /\ OthersUnchanged("auth")
  \/ FetchSettles /\ OthersUnchanged("auth")
  \/ ConfigDelivered /\ OthersUnchanged("auth")
  \/ CreateSettles /\ OthersUnchanged("auth")
  \/ CallerResumes /\ OthersUnchanged("auth")

SpecAuth == AuthInit /\ [][AuthNext]_vars

\* C30: whatever the calls and their interleaving, createAuth0Client is
\* called at most once and /api/auth-config is fetched at most once; every
\* caller awaits the one client promise; and a caller whose await ended did
\* so with that promise's outcome: once it is rejected every call throws
\* its reason and none gets a client.
C30_OneClientPromiseForAll ==
  /\ authState.creations <= 1
  /\ authState.fetches <= 1
  /\ Len(authState.promises) <= 1
  /\ \A c \in 1..Len(authCalls) :
       /\ authCalls[c].promise = authState.clientPromise
       /\ authCalls[c].promise = 1
       /\ authCalls[c].pc = "client" => authState.promises[1].state = "fulfilled"
       /\ authCalls[c].pc = "threw" =>
            /\ authState.promises[1].state = "rejected"
            /\ authCalls[c].reason = authState.promises[1].reason

\* C30 witness: the configuration was fetched, createAuth0Client failed,
\* and two calls, login and getToken, both threw that failure.
C30_Witness ==
  /\ authEnv.variant = "api"
  /\ authState.fetches = 1
  /\ authState.creations = 1
  /\ Len(authCalls) = 2
  /\ authCalls[1].fn = "login" /\ authCalls[2].fn = "getToken"
  /\ \A c \in 1..2 : authCalls[c].pc = "threw" /\ authCalls[c].reason = "createAuth0Client failed"

====
